---- MODULE Spec2Model ----
(***************************************************************************)
(* Phrase / slang occurrence locator of voquab                             *)
(* (scripts/backfill_phrase_slang_occurrences.py, scripts/import_lyrics.py)*)
(*                                                                         *)
(* A string is a sequence of one-character strings.  Characters that are   *)
(* not ASCII are written by their code point ("U+2019").                   *)
(***************************************************************************)
EXTENDS Integers, Sequences, FiniteSets, TLC

VARIABLES line_text, phrase_text, line_words, pc, phrase_lower, phrase_words,
          normalized_words, coarse_check, result, match_index, history,
          calls, norm_text, norm_out, tok_lines, tok_line, tok_index,
          word_position, word_records, chap_phrase, chap_tokens, chap_pc,
          chap_result, frag_sentence, frag_list, frag_pc, current_position,
          frag_positions, inserted_rows, bf_song, bf_pc, bf_runs,
          bf_existing, bf_records, bf_stats, bf_log, phrase_occurrences,
          slang_occurrences, det_song, det_pc, completed_songs, det_records,
          det_stats, det_phrase_rows, det_slang_rows, det_failures

\* The variables of the locator's calls
locator_vars == <<line_text, phrase_text, line_words, pc, phrase_lower,
                  phrase_words, normalized_words, coarse_check, result,
                  match_index, history, calls>>

\* The variables of the normalizer applied on its own
normalizer_vars == <<norm_text, norm_out>>

\* The variables of backfill_song_line_words.process_song
tokenizer_vars == <<tok_lines, tok_line, tok_index, word_position,
                    word_records>>

\* The variables of import_chapter.find_phrase_positions
chapter_vars == <<chap_phrase, chap_tokens, chap_pc, chap_result>>

\* The variables of generate_fragments.insert_fragments
fragments_vars == <<frag_sentence, frag_list, frag_pc, current_position,
                    frag_positions, inserted_rows>>

\* The variables of backfill_phrase_slang_occurrences.process_song and its store
backfill_vars == <<bf_song, bf_pc, bf_runs, bf_existing, bf_records,
                   bf_stats, bf_log, phrase_occurrences, slang_occurrences>>

\* The variables of import_lyrics.detect_occurrences and its store
detect_vars == <<det_song, det_pc, completed_songs, det_records, det_stats,
                 det_phrase_rows, det_slang_rows, det_failures>>

\* The variables outside the locator
other_vars == <<normalizer_vars, tokenizer_vars, chapter_vars,
                fragments_vars, backfill_vars, detect_vars>>

vars == <<locator_vars, other_vars>>

(***************************************************************************)
(* Characters                                                              *)
(***************************************************************************)
APOS == "'"
RSQUO == "U+2019"
SPACE == " "
TAB == "\t"
COMBINING_ACUTE == "U+0301"
A_ACUTE == "U+00E1"
IQUEST == "U+00BF"
IEXCL == "U+00A1"

LowerLetters == {"a", "c", "d", "e", "i", "l", "n", "o", "p", "r", "s",
                 "t", "v", "y", A_ACUTE}
UpperLetters == {"C", "L", "N", "P", "T"}

\* str.isspace() on the characters of the model
IsSpace(c) == c \in {SPACE, TAB}

\* \w of a Python 3 str pattern: letters, digits and the underscore
IsWordChar(c) == c \in LowerLetters \cup UpperLetters \cup {"_", "1"}

(***************************************************************************)
(* Python string primitives                                                *)
(***************************************************************************)
LowerChar(c) ==
    CASE c = "C" -> "c"
      [] c = "L" -> "l"
      [] c = "N" -> "n"
      [] c = "P" -> "p"
      [] c = "T" -> "t"
      [] OTHER -> c

\* str.lower()
StrLower(s) == [i \in 1..Len(s) |-> LowerChar(s[i])]

RECURSIVE LStrip(_)
LStrip(s) == IF s # <<>> /\ IsSpace(Head(s)) THEN LStrip(Tail(s)) ELSE s

RECURSIVE RStrip(_)
RStrip(s) ==
    IF s # <<>> /\ IsSpace(s[Len(s)]) THEN RStrip(SubSeq(s, 1, Len(s) - 1))
    ELSE s

\* str.strip()
Strip(s) == RStrip(LStrip(s))

\* unicodedata.normalize('NFC', s): a base letter followed by the combining
\* acute accent composes to the precomposed letter when one exists
RECURSIVE NFC(_)
NFC(s) ==
    IF Len(s) < 2 THEN s
    ELSE IF s[1] = "a" /\ s[2] = COMBINING_ACUTE
         THEN <<A_ACUTE>> \o NFC(SubSeq(s, 3, Len(s)))
         ELSE <<s[1]>> \o NFC(Tail(s))

\* s.replace(c, "") for every c of chars, and re.sub('[chars]', '', s)
RemoveChars(s, chars) == SelectSeq(s, LAMBDA c : c \notin chars)

\* str.split(): the maximal runs of non-whitespace characters
RECURSIVE SplitAcc(_, _)
SplitAcc(s, cur) ==
    IF s = <<>> THEN (IF cur = <<>> THEN <<>> ELSE <<cur>>)
    ELSE IF IsSpace(Head(s))
         THEN (IF cur = <<>> THEN <<>> ELSE <<cur>>) \o SplitAcc(Tail(s), <<>>)
         ELSE SplitAcc(Tail(s), Append(cur, Head(s)))

Split(s) == SplitAcc(s, <<>>)

\* s.rstrip("'")
RECURSIVE RStripApos(_)
RStripApos(s) ==
    IF s # <<>> /\ s[Len(s)] = APOS THEN RStripApos(SubSeq(s, 1, Len(s) - 1))
    ELSE s

Min(S) == CHOOSE x \in S : \A y \in S : x <= y
Max(S) == CHOOSE x \in S : \A y \in S : x >= y

(***************************************************************************)
(* Normalizer                                                              *)
(***************************************************************************)
\* normalize_text: text.lower().strip(), then NFC
normalize_text(text) == NFC(Strip(StrLower(text)))

\* Mutant: no apostrophe is deleted
ReplacedApostrophes_none == {}

\* The characters the two chained replace() calls delete: both calls name
\* the ASCII apostrophe U+0027
ReplacedApostrophes == {APOS} \cup {APOS}

\* Mutant: the character class without the period
StrippedPunctuation_nodot == {IQUEST, IEXCL, ",", "!", "?", ";", ":"}

\* The character class of the re.sub call
StrippedPunctuation == {IQUEST, IEXCL, ".", ",", "!", "?", ";", ":"}

\* Mutant: the apostrophes are kept, the punctuation alone is removed
normalize_for_search_keepapos(text) ==
    RemoveChars(normalize_text(text), StrippedPunctuation)

normalize_for_search(text) ==
    RemoveChars(RemoveChars(normalize_text(text), ReplacedApostrophes),
                StrippedPunctuation)

(***************************************************************************)
(* Coarse containment check                                                *)
(***************************************************************************)
\* Mutant: the pattern without its trailing (?:$|[^\w])
RECURSIVE MatchHere_noboundary(_, _, _, _)
MatchHere_noboundary(pat, k, line, p) ==
    IF k > Len(pat)
    THEN TRUE
    ELSE IF pat[k] = APOS
         THEN \/ (p <= Len(line) /\ line[p] = APOS
                    /\ MatchHere_noboundary(pat, k + 1, line, p + 1))
              \/ MatchHere_noboundary(pat, k + 1, line, p)
         ELSE p <= Len(line) /\ line[p] = pat[k]
                /\ MatchHere_noboundary(pat, k + 1, line, p + 1)

\* The pattern built from the escaped phrase, matched at line index p: each
\* ASCII apostrophe of the phrase is "'?", every other character is itself;
\* the pattern ends with (?:$|[^\w])
RECURSIVE MatchHere(_, _, _, _)
MatchHere(pat, k, line, p) ==
    IF k > Len(pat)
    THEN p > Len(line) \/ ~IsWordChar(line[p])
    ELSE IF pat[k] = APOS
         THEN \/ (p <= Len(line) /\ line[p] = APOS
                    /\ MatchHere(pat, k + 1, line, p + 1))
              \/ MatchHere(pat, k + 1, line, p)
         ELSE p <= Len(line) /\ line[p] = pat[k]
                /\ MatchHere(pat, k + 1, line, p + 1)

\* Mutant: re.match, which tries the pattern at the start of the line only
phrase_exists_in_line_match(line, phrase) ==
    MatchHere(normalize_text(phrase), 1, normalize_text(line), 1)

\* re.search of (?:^|[^\w]) + escaped phrase + (?:$|[^\w])
phrase_exists_in_line(line, phrase) ==
    LET line_lower == normalize_text(line)
        phrase_pattern == normalize_text(phrase)
    IN  \/ MatchHere(phrase_pattern, 1, line_lower, 1)
        \/ \E q \in 1..Len(line_lower) :
              /\ ~IsWordChar(line_lower[q])
              /\ MatchHere(phrase_pattern, 1, line_lower, q + 1)

(***************************************************************************)
(* Locator: find_phrase_positions                                          *)
(***************************************************************************)
\* The short-word threshold of "len(target) < 3" and "len(phrase_word) < 3"
ShortWordLen == 3

None == [found |-> FALSE, start |-> 0, end |-> 0]
Span(s, e) == [found |-> TRUE, start |-> s, end |-> e]

\* Mutant: normalized_words is a list shared by all calls (a mutable default
\* argument), so every call appends to what the earlier calls left in it
NormalizedWords_shared(words) ==
    LET Fresh(ws) ==
            [i \in 1..Len(ws) |->
                [norm |-> normalize_for_search(ws[i].word_text),
                 position |-> ws[i].word_position]]
        Earlier[n \in 0..Len(history)] ==
            IF n = 0 THEN <<>>
            ELSE Earlier[n - 1] \o Fresh(history[n].line_words)
    IN  Earlier[Len(history)] \o Fresh(words)

\* normalized_words: one {norm, position} per word record, in list order
\* (the 'original' entry the backfill copy also stores is never read)
NormalizedWords(words) ==
    [i \in 1..Len(words) |->
        [norm |-> normalize_for_search(words[i].word_text),
         position |-> words[i].word_position]]

\* Mutant: the short word compared with startswith
ShortWordMatches_startswith(line_word, phrase_word) ==
    /\ Len(line_word) >= Len(phrase_word)
    /\ SubSeq(line_word, 1, Len(phrase_word)) = phrase_word

\* "w['norm'] == target" and "line_word != phrase_word" of the short branches
ShortWordMatches(line_word, phrase_word) == line_word = phrase_word

\* exact match, or the two rstrip("'") contraction comparisons
LongWordMatches(line_word, phrase_word) ==
    \/ line_word = phrase_word
    \/ RStripApos(phrase_word) = line_word
    \/ RStripApos(line_word) = phrase_word

\* One word pair of the multi-word scan
WordPairMatches(line_word, phrase_word) ==
    IF Len(phrase_word) < ShortWordLen
    THEN ShortWordMatches(line_word, phrase_word)
    ELSE LongWordMatches(line_word, phrase_word)

\* Mutant: the short target looked up with "target in w['norm']"
RECURSIVE FirstShortMatch_contains(_, _, _)
FirstShortMatch_contains(nwords, target, i) ==
    IF i > Len(nwords) THEN 0
    ELSE IF \E a \in 1..(Len(nwords[i].norm) - Len(target) + 1) :
                SubSeq(nwords[i].norm, a, a + Len(target) - 1) = target
         THEN i
         ELSE FirstShortMatch_contains(nwords, target, i + 1)

\* "for w in normalized_words: if w['norm'] == target: return": the index of
\* the first word that matches exactly, from index i on; 0 when there is none
RECURSIVE FirstShortMatch(_, _, _)
FirstShortMatch(nwords, target, i) ==
    IF i > Len(nwords) THEN 0
    ELSE IF ShortWordMatches(nwords[i].norm, target) THEN i
    ELSE FirstShortMatch(nwords, target, i + 1)

\* Mutant: the loop keeps going and the last matching word wins
FirstLongMatch_last(nwords, target, i) ==
    LET S == {k \in i..Len(nwords) : LongWordMatches(nwords[k].norm, target)}
    IN  IF S = {} THEN 0 ELSE Max(S)

\* The loop of the longer single word: exact or contraction match
RECURSIVE FirstLongMatch(_, _, _)
FirstLongMatch(nwords, target, i) ==
    IF i > Len(nwords) THEN 0
    ELSE IF LongWordMatches(nwords[i].norm, target) THEN i
    ELSE FirstLongMatch(nwords, target, i + 1)

\* Mutant: the inner loop stops after the window's first pair
WindowMatches_firstonly(nwords, pwords, i) ==
    WordPairMatches(nwords[i].norm, pwords[1])

\* The inner loop over enumerate(phrase_words) for the window starting at
\* index i: TRUE when no pair sets match = False
WindowMatches(nwords, pwords, i) ==
    \A j \in 1..Len(pwords) :
        WordPairMatches(nwords[i + j - 1].norm, pwords[j])

\* Mutant: the scan does not return at its first match and keeps the last
RECURSIVE ScanWindows_last(_, _, _)
ScanWindows_last(nwords, pwords, i) ==
    IF i > Len(nwords) \/ (i - 1) + Len(pwords) > Len(nwords) THEN 0
    ELSE LET later == ScanWindows_last(nwords, pwords, i + 1)
         IN  IF later # 0 THEN later
             ELSE IF WindowMatches(nwords, pwords, i) THEN i ELSE 0

\* "for i in range(len(normalized_words))" with its break: the first window
\* start, from i on, whose pairs all match; 0 when the scan ends without one
RECURSIVE ScanWindows(_, _, _)
ScanWindows(nwords, pwords, i) ==
    IF i > Len(nwords) \/ (i - 1) + Len(pwords) > Len(nwords) THEN 0
    ELSE IF WindowMatches(nwords, pwords, i) THEN i
    ELSE ScanWindows(nwords, pwords, i + 1)

\* Mutant: the positions are collected from the start of the list, not from
\* the start of the window
WindowPositions_fromstart(nwords, pwords, i) ==
    [j \in 1..Len(pwords) |-> nwords[j].position]

\* positions of the window's words, in append order
WindowPositions(nwords, pwords, i) ==
    [j \in 1..Len(pwords) |-> nwords[i + j - 1].position]

\* Mutant: max and min exchanged
SpanOfPositions_swapped(positions) ==
    LET S == {positions[j] : j \in 1..Len(positions)}
    IN  Span(Max(S), Min(S))

\* "return (min(positions), max(positions))"
SpanOfPositions(positions) ==
    LET S == {positions[j] : j \in 1..Len(positions)}
    IN  Span(Min(S), Max(S))

\* "return (w['position'], w['position'])"
SpanOfWord(w) == Span(w.position, w.position)

(***************************************************************************)
(* Inputs                                                                  *)
(***************************************************************************)
MaxTokens == 3
MaxCalls == 3

la == <<"l", "a">>
pa == <<"p", "a">>
ca == <<"c", "a">>
cas == <<"c", "a", "s">>
casa == <<"c", "a", "s", "a">>
Casa == <<"C", "a", "s", "a">>
lava == <<"l", "a", "v", "a">>
Q(w) == w \o <<APOS>>
Sp(a, b) == a \o <<SPACE>> \o b

\* Word texts of a line's word records: a short word, a long word that
\* starts with it, a short contraction and a capitalised long contraction,
\* both written with the ASCII apostrophe
TokenTexts == {la, lava, Q(pa), Q(Casa)}

\* Phrase and slang texts
SingleWordTexts ==
    {la, Q(la), pa, Q(pa), ca, cas, casa, Casa, Q(casa), lava, Q(lava),
     pa \o <<RSQUO>>, <<"c", "a", COMBINING_ACUTE>>}
MultiWordTexts ==
    {Sp(Q(pa), Sp(la, casa)), Sp(pa, Sp(la, casa)), Sp(la, casa),
     Sp(la, la), Sp(Q(pa), la), Sp(la, Q(lava)), Sp(lava, la),
     la \o <<SPACE, SPACE>> \o casa, Sp(la, casa) \o <<".">>}
EmptyTexts == {<<>>, <<SPACE>>, <<".">>, <<APOS>>}
PhraseTexts == SingleWordTexts \cup MultiWordTexts \cup EmptyTexts

\* word_position of the i-th record of a line: consecutive from 1, or with
\* the gaps left by skipped tokens
Strides == {1, 2}
PositionAt(stride, i) == stride * i + (stride - 1)

WordLists ==
    UNION {[1..n -> TokenTexts] : n \in 0..MaxTokens}

LineWords(texts, stride) ==
    [i \in 1..Len(texts) |->
        [word_text |-> texts[i], word_position |-> PositionAt(stride, i)]]

\* The word texts joined by single spaces
RECURSIVE JoinWords(_)
JoinWords(texts) ==
    IF texts = <<>> THEN <<>>
    ELSE IF Len(texts) = 1 THEN texts[1]
    ELSE Sp(texts[1], JoinWords(Tail(texts)))

CasarLine ==
    <<"N", "o", " ", "v", "o", "y", " ", "a", " ", "c", "a", "s", "a", "r",
      " ", "a", " ", "n", "a", "d", "i", "e">>
\* "pa' la casa lava": a line holding every word of the vocabulary
VocabularyLine == Sp(Sp(Sp(Q(pa), la), casa), lava)
OtherLines == {<<>>, CasarLine, VocabularyLine}

LinesFor(texts) == {JoinWords(texts)} \cup OtherLines

\* No call of the locator is running
LocatorIdle ==
    /\ line_text = <<>>
    /\ phrase_text = <<>>
    /\ line_words = <<>>
    /\ pc = "idle"
    /\ phrase_lower = <<>>
    /\ phrase_words = <<>>
    /\ normalized_words = <<>>
    /\ coarse_check = "skipped"
    /\ result = None
    /\ match_index = 0
    /\ history = <<>>
    /\ calls = <<>>

\* The other parts of the program at rest
NormalizerIdle ==
    /\ norm_text = <<>>
    /\ norm_out = <<>>

TokenizerIdle ==
    /\ tok_lines = <<>>
    /\ tok_line = 0
    /\ tok_index = 0
    /\ word_position = 0
    /\ word_records = <<>>

ChapterIdle ==
    /\ chap_phrase = <<>>
    /\ chap_tokens = <<>>
    /\ chap_pc = "idle"
    /\ chap_result = <<>>

FragmentsIdle ==
    /\ frag_sentence = <<>>
    /\ frag_list = <<>>
    /\ frag_pc = "idle"
    /\ current_position = 0
    /\ frag_positions = <<>>
    /\ inserted_rows = <<>>

BackfillIdle ==
    /\ bf_song = <<>>
    /\ bf_pc = "idle"
    /\ bf_runs = 0
    /\ bf_existing = <<>>
    /\ bf_records = <<>>
    /\ bf_stats = <<>>
    /\ bf_log = <<>>
    /\ phrase_occurrences = <<>>
    /\ slang_occurrences = <<>>

DetectIdle ==
    /\ det_song = <<>>
    /\ det_pc = "idle"
    /\ completed_songs = {}
    /\ det_records = <<>>
    /\ det_stats = <<>>
    /\ det_phrase_rows = {}
    /\ det_slang_rows = {}
    /\ det_failures = 0

\* Nothing but the locator runs
OthersIdle ==
    /\ NormalizerIdle
    /\ TokenizerIdle
    /\ ChapterIdle
    /\ FragmentsIdle
    /\ BackfillIdle
    /\ DetectIdle

\* One part runs alone: the rest is idle and stays as it is
NormalizerAlone ==
    /\ LocatorIdle
    /\ TokenizerIdle
    /\ ChapterIdle
    /\ FragmentsIdle
    /\ BackfillIdle
    /\ DetectIdle

NormalizerFrame == UNCHANGED <<locator_vars, tokenizer_vars, chapter_vars,
    fragments_vars, backfill_vars, detect_vars>>

TokenizerAlone ==
    /\ LocatorIdle
    /\ NormalizerIdle
    /\ ChapterIdle
    /\ FragmentsIdle
    /\ BackfillIdle
    /\ DetectIdle

TokenizerFrame == UNCHANGED <<locator_vars, normalizer_vars, chapter_vars,
    fragments_vars, backfill_vars, detect_vars>>

ChapterAlone ==
    /\ LocatorIdle
    /\ NormalizerIdle
    /\ TokenizerIdle
    /\ FragmentsIdle
    /\ BackfillIdle
    /\ DetectIdle

ChapterFrame == UNCHANGED <<locator_vars, normalizer_vars, tokenizer_vars,
    fragments_vars, backfill_vars, detect_vars>>

FragmentsAlone ==
    /\ LocatorIdle
    /\ NormalizerIdle
    /\ TokenizerIdle
    /\ ChapterIdle
    /\ BackfillIdle
    /\ DetectIdle

FragmentsFrame == UNCHANGED <<locator_vars, normalizer_vars, tokenizer_vars,
    chapter_vars, backfill_vars, detect_vars>>

BackfillAlone ==
    /\ LocatorIdle
    /\ NormalizerIdle
    /\ TokenizerIdle
    /\ ChapterIdle
    /\ FragmentsIdle
    /\ DetectIdle

BackfillFrame == UNCHANGED <<locator_vars, normalizer_vars, tokenizer_vars,
    chapter_vars, fragments_vars, detect_vars>>

DetectAlone ==
    /\ LocatorIdle
    /\ NormalizerIdle
    /\ TokenizerIdle
    /\ ChapterIdle
    /\ FragmentsIdle
    /\ BackfillIdle

DetectFrame == UNCHANGED <<locator_vars, normalizer_vars, tokenizer_vars,
    chapter_vars, fragments_vars, backfill_vars>>

(***************************************************************************)
(* One call of find_phrase_positions                                       *)
(***************************************************************************)
Init ==
    /\ \E texts \in WordLists, stride \in Strides :
          /\ line_words = LineWords(texts, stride)
          /\ line_text \in LinesFor(texts)
    /\ phrase_text \in PhraseTexts
    /\ pc = "start"
    /\ phrase_lower = <<>>
    /\ phrase_words = <<>>
    /\ normalized_words = <<>>
    /\ coarse_check = "skipped"
    /\ result = None
    /\ match_index = 0
    /\ history = <<>>
    /\ OthersIdle
    /\ calls = <<>>

\* What the call of phrase_exists_in_line returned
CoarseOutcome(line, phrase) ==
    IF phrase_exists_in_line(line, phrase) THEN "passed" ELSE "failed"

\* Mutant: the normalized text is written back into the word records
Return_inplace(r, idx) ==
    /\ result' = r
    /\ match_index' = idx
    /\ pc' = "done"
    /\ history' = Append(history, [line_text |-> line_text,
                                   phrase_text |-> phrase_text,
                                   line_words |-> line_words,
                                   result |-> r])
    /\ line_words' = [k \in 1..Len(line_words) |->
                        [line_words[k] EXCEPT
                            !.word_text = normalize_for_search(@)]]
    /\ UNCHANGED <<line_text, phrase_text, calls, other_vars>>

\* The return statement: the call's inputs and its result are logged
Return(r, idx) ==
    /\ result' = r
    /\ match_index' = idx
    /\ pc' = "done"
    /\ history' = Append(history, [line_text |-> line_text,
                                   phrase_text |-> phrase_text,
                                   line_words |-> line_words,
                                   result |-> r])
    /\ UNCHANGED <<line_text, phrase_text, line_words, calls, other_vars>>

\* "if not line_words: return None"
ReturnNoLineWords ==
    /\ pc = "start"
    /\ line_words = <<>>
    /\ UNCHANGED <<phrase_lower, phrase_words, normalized_words, coarse_check>>
    /\ Return(None, 0)

\* "if not phrase_words: return None"
ReturnNoPhraseWords ==
    /\ pc = "start"
    /\ line_words # <<>>
    /\ Split(normalize_for_search(phrase_text)) = <<>>
    /\ phrase_lower' = normalize_for_search(phrase_text)
    /\ UNCHANGED <<phrase_words, normalized_words, coarse_check>>
    /\ Return(None, 0)

\* Mutant: the short word goes through the containment check as well
ShortSingleWord_withcheck ==
    /\ pc = "start"
    /\ line_words # <<>>
    /\ LET pwords == Split(normalize_for_search(phrase_text))
           nwords == NormalizedWords(line_words)
       IN  /\ Len(pwords) = 1
           /\ Len(pwords[1]) < ShortWordLen
           /\ phrase_lower' = normalize_for_search(phrase_text)
           /\ phrase_words' = pwords
           /\ normalized_words' = nwords
           /\ coarse_check' = "skipped"
           /\ IF ~phrase_exists_in_line(line_text, phrase_text)
              THEN Return(None, 0)
              ELSE LET i == FirstShortMatch(nwords, pwords[1], 1)
                   IN  IF i = 0 THEN Return(None, 0)
                       ELSE Return(SpanOfWord(nwords[i]), i)

\* Single word shorter than the threshold: exact match over the words only
ShortSingleWord ==
    /\ pc = "start"
    /\ line_words # <<>>
    /\ LET pwords == Split(normalize_for_search(phrase_text))
           nwords == NormalizedWords(line_words)
       IN  /\ Len(pwords) = 1
           /\ Len(pwords[1]) < ShortWordLen
           /\ phrase_lower' = normalize_for_search(phrase_text)
           /\ phrase_words' = pwords
           /\ normalized_words' = nwords
           /\ coarse_check' = "skipped"
           /\ LET i == FirstShortMatch(nwords, pwords[1], 1)
              IN  IF i = 0 THEN Return(None, 0)
                  ELSE Return(SpanOfWord(nwords[i]), i)

\* Mutant: the longer single word is looked up without the containment check
LongSingleWord_nocheck ==
    /\ pc = "start"
    /\ line_words # <<>>
    /\ LET pwords == Split(normalize_for_search(phrase_text))
           nwords == NormalizedWords(line_words)
       IN  /\ Len(pwords) = 1
           /\ Len(pwords[1]) >= ShortWordLen
           /\ phrase_lower' = normalize_for_search(phrase_text)
           /\ phrase_words' = pwords
           /\ normalized_words' = nwords
           /\ coarse_check' = "skipped"
           /\ LET i == FirstLongMatch(nwords, pwords[1], 1)
              IN  IF i = 0 THEN Return(None, 0)
                  ELSE Return(SpanOfWord(nwords[i]), i)

\* Longer single word: coarse containment check, then the first word that
\* matches exactly or as a contraction
LongSingleWord ==
    /\ pc = "start"
    /\ line_words # <<>>
    /\ LET pwords == Split(normalize_for_search(phrase_text))
           nwords == NormalizedWords(line_words)
       IN  /\ Len(pwords) = 1
           /\ Len(pwords[1]) >= ShortWordLen
           /\ phrase_lower' = normalize_for_search(phrase_text)
           /\ phrase_words' = pwords
           /\ normalized_words' = nwords
           /\ coarse_check' = CoarseOutcome(line_text, phrase_text)
           /\ IF ~phrase_exists_in_line(line_text, phrase_text)
              THEN Return(None, 0)
              ELSE LET i == FirstLongMatch(nwords, pwords[1], 1)
                   IN  IF i = 0 THEN Return(None, 0)
                       ELSE Return(SpanOfWord(nwords[i]), i)

\* Multi-word phrase: coarse containment check, then the window scan
MultiWord ==
    /\ pc = "start"
    /\ line_words # <<>>
    /\ LET pwords == Split(normalize_for_search(phrase_text))
           nwords == NormalizedWords(line_words)
       IN  /\ Len(pwords) > 1
           /\ phrase_lower' = normalize_for_search(phrase_text)
           /\ phrase_words' = pwords
           /\ normalized_words' = nwords
           /\ coarse_check' = CoarseOutcome(line_text, phrase_text)
           /\ IF ~phrase_exists_in_line(line_text, phrase_text)
              THEN Return(None, 0)
              ELSE LET i == ScanWindows(nwords, pwords, 1)
                   IN  IF i = 0 THEN Return(None, 0)
                       ELSE Return(SpanOfPositions(
                                       WindowPositions(nwords, pwords, i)), i)

Call ==
    \/ ReturnNoLineWords
    \/ ReturnNoPhraseWords
    \/ ShortSingleWord
    \/ LongSingleWord
    \/ MultiWord

Next == Call

Spec == Init /\ [][Next]_vars

(***************************************************************************)
(* Repeated calls: a caller invokes the locator again and again            *)
(* (process_song calls it once per line and phrase)                        *)
(***************************************************************************)
RepeatWordLists == {<<>>, <<la>>, <<lava>>}
RepeatPhrases == {la, lava, Sp(lava, la), <<".">>}

InitRepeat ==
    /\ \E texts \in RepeatWordLists :
          /\ line_words = LineWords(texts, 1)
          /\ line_text = JoinWords(texts)
    /\ phrase_text \in RepeatPhrases
    /\ pc = "start"
    /\ phrase_lower = <<>>
    /\ phrase_words = <<>>
    /\ normalized_words = <<>>
    /\ coarse_check = "skipped"
    /\ result = None
    /\ match_index = 0
    /\ history = <<>>
    /\ OthersIdle
    /\ calls = <<>>

\* The caller's next call, with fresh locals
Invoke ==
    /\ pc = "done"
    /\ Len(history) < MaxCalls
    /\ \E texts \in RepeatWordLists :
          /\ line_words' = LineWords(texts, 1)
          /\ line_text' = JoinWords(texts)
    /\ phrase_text' \in RepeatPhrases
    /\ pc' = "start"
    /\ phrase_lower' = <<>>
    /\ phrase_words' = <<>>
    /\ normalized_words' = <<>>
    /\ coarse_check' = "skipped"
    /\ result' = None
    /\ match_index' = 0
    /\ UNCHANGED <<history, calls, other_vars>>

NextRepeat == Call \/ Invoke

SpecRepeat == InitRepeat /\ [][NextRepeat]_vars

(***************************************************************************)
(* One call on malformed input: blank word texts, mark-only expressions    *)
(***************************************************************************)
\* Word texts that are blank or hold nothing but marks, beside two words
MalformedTokenTexts == {<<>>, <<SPACE>>, <<".">>, <<APOS>>, <<RSQUO>>, la, lava}

MalformedWordLists ==
    UNION {[1..n -> MalformedTokenTexts] : n \in 0..MaxTokens}

\* Expressions that are empty, blank or made of marks only, beside one
\* expression for each path of the call
MalformedPhrases ==
    EmptyTexts \cup {<<SPACE, TAB>>, <<RSQUO>>, <<APOS, ".">>,
                     <<IQUEST, "?">>, <<".", SPACE, ".">>,
                     la, lava, Sp(la, lava)}

InitMalformed ==
    /\ \E texts \in MalformedWordLists :
          /\ line_words = LineWords(texts, 1)
          /\ line_text \in {JoinWords(texts), <<>>}
    /\ phrase_text \in MalformedPhrases
    /\ pc = "start"
    /\ phrase_lower = <<>>
    /\ phrase_words = <<>>
    /\ normalized_words = <<>>
    /\ coarse_check = "skipped"
    /\ result = None
    /\ match_index = 0
    /\ history = <<>>
    /\ OthersIdle
    /\ calls = <<>>

SpecMalformed == InitMalformed /\ [][Next]_vars

(***************************************************************************)
(* Concurrent calls of find_phrase_positions, statement by statement       *)
(***************************************************************************)
NumThreads == 2
Threads == 1..NumThreads

CallInput(line, phrase, texts) ==
    [line_text |-> line, phrase_text |-> phrase,
     line_words |-> LineWords(texts, 1)]

\* The arguments the threads call with: one list for each path of the
\* function, several of them over the same words
ThreadInputs ==
    {CallInput(<<>>, la, <<>>),
     CallInput(la, <<".">>, <<la>>),
     CallInput(Sp(la, lava), la, <<la, lava>>),
     CallInput(Sp(la, lava), lava, <<la, lava>>),
     CallInput(CasarLine, lava, <<la, lava>>),
     CallInput(Sp(la, Sp(la, lava)), Sp(la, lava), <<la, la, lava>>),
     CallInput(VocabularyLine, Sp(la, casa), <<lava, la, la>>)}

\* The frame of a call: its arguments and its local variables
NewCall(input) ==
    [line_text |-> input.line_text,
     phrase_text |-> input.phrase_text,
     line_words |-> input.line_words,
     pc |-> "start",
     phrase_words |-> <<>>,
     normalized_words |-> <<>>,
     i |-> 0,
     j |-> 0,
     positions |-> <<>>,
     result |-> None,
     comparisons |-> 0,
     last_read |-> 0]

InitThreads ==
    /\ calls \in [Threads -> {NewCall(input) : input \in ThreadInputs}]
    /\ line_text = <<>>
    /\ phrase_text = <<>>
    /\ line_words = <<>>
    /\ pc = "threads"
    /\ phrase_lower = <<>>
    /\ phrase_words = <<>>
    /\ normalized_words = <<>>
    /\ coarse_check = "skipped"
    /\ result = None
    /\ match_index = 0
    /\ history = <<>>
    /\ OthersIdle

\* A statement of thread t leaves its frame as c
SetCall(t, c) ==
    /\ calls' = [calls EXCEPT ![t] = c]
    /\ UNCHANGED <<line_text, phrase_text, line_words, pc, phrase_lower,
                   phrase_words, normalized_words, coarse_check, result,
                   match_index, history, other_vars>>

\* "return r"
Finish(c, r) == [c EXCEPT !.result = r, !.pc = "done"]

\* Mutant: normalized_words is one list of the module, the one the first
\* thread built
ScannedWords_shared(t) == calls[1].normalized_words

\* The list the loops of thread t iterate over: its local normalized_words
ScannedWords(t) == calls[t].normalized_words

\* Mutant: the window loop without its break
WindowFits_nobreak(i, k, n) == TRUE

\* The negation of "if i + len(phrase_words) > len(normalized_words): break",
\* for the 1-based window start i
WindowFits(i, k, n) == ~((i - 1) + k > n)

\* "if not line_words: return None"
CheckLineWords(t) ==
    LET c == calls[t]
    IN  /\ c.pc = "start"
        /\ IF c.line_words = <<>>
           THEN SetCall(t, Finish(c, None))
           ELSE SetCall(t, [c EXCEPT !.pc = "normalize"])

\* The phrase is normalized and split, normalized_words is built, and the
\* path is chosen; the two longer paths run the containment check first
Normalize(t) ==
    LET c == calls[t]
        pwords == Split(normalize_for_search(c.phrase_text))
        built == [c EXCEPT !.phrase_words = pwords,
                           !.normalized_words = NormalizedWords(c.line_words),
                           !.i = 1]
    IN  /\ c.pc = "normalize"
        /\ IF pwords = <<>>
           THEN SetCall(t, Finish(c, None))
           ELSE IF Len(pwords) = 1 /\ Len(pwords[1]) < ShortWordLen
           THEN SetCall(t, [built EXCEPT !.pc = "short_loop"])
           ELSE IF ~phrase_exists_in_line(c.line_text, c.phrase_text)
           THEN SetCall(t, Finish(built, None))
           ELSE IF Len(pwords) = 1
           THEN SetCall(t, [built EXCEPT !.pc = "long_loop"])
           ELSE SetCall(t, [built EXCEPT !.pc = "window_loop"])

\* One iteration of "for w in normalized_words" on the short-word path
ShortLoop(t) ==
    LET c == calls[t]
        nwords == ScannedWords(t)
    IN  /\ c.pc = "short_loop"
        /\ IF c.i > Len(nwords)
           THEN SetCall(t, Finish(c, None))
           ELSE LET read == [c EXCEPT !.comparisons = @ + 1,
                                      !.last_read = Max({@, c.i})]
                IN  IF ShortWordMatches(nwords[c.i].norm, c.phrase_words[1])
                    THEN SetCall(t, Finish(read, SpanOfWord(nwords[c.i])))
                    ELSE SetCall(t, [read EXCEPT !.i = @ + 1])

\* One iteration of "for w in normalized_words" on the longer-word path
LongLoop(t) ==
    LET c == calls[t]
        nwords == ScannedWords(t)
    IN  /\ c.pc = "long_loop"
        /\ IF c.i > Len(nwords)
           THEN SetCall(t, Finish(c, None))
           ELSE LET read == [c EXCEPT !.comparisons = @ + 1,
                                      !.last_read = Max({@, c.i})]
                IN  IF LongWordMatches(nwords[c.i].norm, c.phrase_words[1])
                    THEN SetCall(t, Finish(read, SpanOfWord(nwords[c.i])))
                    ELSE SetCall(t, [read EXCEPT !.i = @ + 1])

\* The head of "for i in range(len(normalized_words))": the loop ends, or
\* breaks because the window does not fit, or a window is started with
\* match = True and positions = []
WindowLoop(t) ==
    LET c == calls[t]
        nwords == ScannedWords(t)
    IN  /\ c.pc = "window_loop"
        /\ IF c.i > Len(nwords)
           THEN SetCall(t, Finish(c, None))
           ELSE IF ~WindowFits(c.i, Len(c.phrase_words), Len(nwords))
           THEN SetCall(t, Finish(c, None))
           ELSE SetCall(t, [c EXCEPT !.pc = "pair_loop", !.j = 1,
                                     !.positions = <<>>])

\* One iteration of "for j, phrase_word in enumerate(phrase_words)", or the
\* return after its last one; reading past the list raises IndexError
PairLoop(t) ==
    LET c == calls[t]
        nwords == ScannedWords(t)
        at == c.i + c.j - 1
    IN  /\ c.pc = "pair_loop"
        /\ IF c.j > Len(c.phrase_words)
           THEN SetCall(t, Finish(c, SpanOfPositions(c.positions)))
           ELSE IF at > Len(nwords)
           THEN SetCall(t, [c EXCEPT !.pc = "error", !.last_read = at])
           ELSE LET read == [c EXCEPT !.comparisons = @ + 1,
                                      !.last_read = Max({@, at})]
                IN  IF WordPairMatches(nwords[at].norm, c.phrase_words[c.j])
                    THEN SetCall(t, [read EXCEPT
                                        !.positions =
                                            Append(@, nwords[at].position),
                                        !.j = @ + 1])
                    ELSE SetCall(t, [read EXCEPT !.pc = "window_loop",
                                                 !.i = @ + 1])

Step(t) ==
    \/ CheckLineWords(t)
    \/ Normalize(t)
    \/ ShortLoop(t)
    \/ LongLoop(t)
    \/ WindowLoop(t)
    \/ PairLoop(t)

NextThreads == \E t \in Threads : Step(t)

SpecThreads == InitThreads /\ [][NextThreads]_vars

\* The arguments of the single call that is followed to its end: four word
\* lists, the line made of the words or another one, six expressions
RunWordLists == {<<>>, <<la, lava>>, <<la, la, lava>>, <<lava, la, la>>}
RunPhrases ==
    {la, lava, Sp(la, lava), Sp(la, casa), Sp(la, la), <<".">>}
RunInputs ==
    UNION {{CallInput(line, phrase, texts) :
               line \in {JoinWords(texts), VocabularyLine},
               phrase \in RunPhrases} : texts \in RunWordLists}

InitRun ==
    /\ calls \in [{1} -> {NewCall(input) : input \in RunInputs}]
    /\ line_text = <<>>
    /\ phrase_text = <<>>
    /\ line_words = <<>>
    /\ pc = "threads"
    /\ phrase_lower = <<>>
    /\ phrase_words = <<>>
    /\ normalized_words = <<>>
    /\ coarse_check = "skipped"
    /\ result = None
    /\ match_index = 0
    /\ history = <<>>
    /\ OthersIdle

NextRun == Step(1)

\* One call, run by a thread that is scheduled as long as it has a statement
\* to execute
SpecRun == InitRun /\ [][NextRun]_vars /\ WF_vars(NextRun)

\* The value of one call run alone
FindPhrasePositions(line, phrase, words) ==
    LET pwords == Split(normalize_for_search(phrase))
        nwords == NormalizedWords(words)
    IN  IF words = <<>> \/ pwords = <<>> THEN None
        ELSE IF Len(pwords) = 1 /\ Len(pwords[1]) < ShortWordLen
        THEN LET i == FirstShortMatch(nwords, pwords[1], 1)
             IN  IF i = 0 THEN None ELSE SpanOfWord(nwords[i])
        ELSE IF ~phrase_exists_in_line(line, phrase) THEN None
        ELSE IF Len(pwords) = 1
        THEN LET i == FirstLongMatch(nwords, pwords[1], 1)
             IN  IF i = 0 THEN None ELSE SpanOfWord(nwords[i])
        ELSE LET i == ScanWindows(nwords, pwords, 1)
             IN  IF i = 0 THEN None
                 ELSE SpanOfPositions(WindowPositions(nwords, pwords, i))

(***************************************************************************)
(* The normalizer applied to a text and then to its own output             *)
(***************************************************************************)
\* The texts: every string of up to MaxLen characters, among them a letter,
\* an upper-case letter, whitespace, a stripped mark, both apostrophes and
\* the combining accent
MaxLen == 3
NormChars == {"a", "L", SPACE, ".", APOS, RSQUO, COMBINING_ACUTE}
NormTexts == UNION {[1..n -> NormChars] : n \in 0..MaxLen}

InitNormalize ==
    /\ norm_text \in NormTexts
    /\ norm_out = <<>>
    /\ NormalizerAlone

\* normalize_for_search applied to the text, then to what it returned
ApplyNormalizer ==
    /\ Len(norm_out) < 2
    /\ norm_out' = Append(norm_out,
                          normalize_for_search(IF norm_out = <<>>
                                               THEN norm_text
                                               ELSE norm_out[Len(norm_out)]))
    /\ UNCHANGED norm_text
    /\ NormalizerFrame

NextNormalize == ApplyNormalizer

SpecNormalize == InitNormalize /\ [][NextNormalize]_vars

(***************************************************************************)
(* The copy of the locator in import_lyrics.py                             *)
(***************************************************************************)
lyrics_normalize_text_for_match(text) == NFC(Strip(StrLower(text)))

\* Mutant: the copy deletes no apostrophe
LyricsReplacedApostrophes_none == {}

\* Both replace() calls of the copy name the ASCII apostrophe as well
LyricsReplacedApostrophes == {APOS} \cup {APOS}

\* The character class of the copy's re.sub call
LyricsStrippedPunctuation == {IQUEST, IEXCL, ".", ",", "!", "?", ";", ":"}

lyrics_normalize_for_search(text) ==
    RemoveChars(RemoveChars(lyrics_normalize_text_for_match(text),
                            LyricsReplacedApostrophes),
                LyricsStrippedPunctuation)

lyrics_phrase_exists_in_line(line, phrase) ==
    LET line_lower == lyrics_normalize_text_for_match(line)
        escaped_phrase == lyrics_normalize_text_for_match(phrase)
    IN  \E q \in 0..Len(line_lower) :
            /\ q = 0 \/ ~IsWordChar(line_lower[q])
            /\ MatchHere(escaped_phrase, 1, line_lower, q + 1)

\* The word tests of the copy's loops
lyrics_word_matches(line_word, phrase_word) ==
    IF Len(phrase_word) < ShortWordLen
    THEN line_word = phrase_word
    ELSE \/ line_word = phrase_word
         \/ RStripApos(phrase_word) = line_word
         \/ RStripApos(line_word) = phrase_word

\* The copy's find_phrase_positions: the early returns, then the first list
\* index at which the phrase words match consecutive words
lyrics_find_phrase_positions(line, phrase, words) ==
    LET pwords == Split(lyrics_normalize_for_search(phrase))
        norm(n) == lyrics_normalize_for_search(words[n].word_text)
        starts == {i \in 1..(Len(words) - Len(pwords) + 1) :
                      \A j \in 1..Len(pwords) :
                          lyrics_word_matches(norm(i + j - 1), pwords[j])}
        window(i) == {words[i + j - 1].word_position : j \in 1..Len(pwords)}
    IN  IF words = <<>> \/ pwords = <<>> THEN None
        ELSE IF (Len(pwords) > 1 \/ Len(pwords[1]) >= ShortWordLen)
                  /\ ~lyrics_phrase_exists_in_line(line, phrase)
        THEN None
        ELSE IF starts = {} THEN None
        ELSE Span(Min(window(Min(starts))), Max(window(Min(starts))))

(***************************************************************************)
(* backfill_song_line_words.process_song: the word records of a song       *)
(***************************************************************************)
\* What the loop over a line's tokens distinguishes: a token it skips as
\* punctuation, digit or space, a slang term, and a word that is recorded
TokenKinds == {"punct", "slang", "word"}

\* A line's tokens; the empty sequence is a line with blank text
MaxDocLen == 3
Docs == UNION {[1..n -> TokenKinds] : n \in 0..MaxDocLen}

\* A line of the song, with or without words stored by an earlier run
SongLines == [doc : Docs, has_words : BOOLEAN]

\* The songs: one line, or two lines
LineCounts == {1, 2}

InitTokenize ==
    /\ \E n \in LineCounts : tok_lines \in [1..n -> SongLines]
    /\ tok_line = 1
    /\ tok_index = 0
    /\ word_position = 0
    /\ word_records = <<>>
    /\ TokenizerAlone

\* Mutant: the position is set, not counted up
NextWordPosition_set(position) == 1

\* "word_position += 1"
NextWordPosition(position) == position + 1

\* The head of "for line in lines": a line that has words, or whose text is
\* blank, is skipped; else the line is tokenized and word_position = 0
StartLine ==
    /\ tok_line \in 1..Len(tok_lines)
    /\ tok_index = 0
    /\ IF tok_lines[tok_line].has_words \/ tok_lines[tok_line].doc = <<>>
       THEN /\ tok_line' = tok_line + 1
            /\ UNCHANGED <<tok_index, word_position>>
       ELSE /\ tok_index' = 1
            /\ word_position' = 0
            /\ UNCHANGED tok_line
    /\ UNCHANGED <<tok_lines, word_records>>
    /\ TokenizerFrame

\* The token at hand
CurrentToken == tok_lines[tok_line].doc[tok_index]

InLine ==
    /\ tok_line \in 1..Len(tok_lines)
    /\ tok_index \in 1..Len(tok_lines[tok_line].doc)

\* "if token.is_punct or token.is_digit or token.is_space: continue" and the
\* test for a token without a letter
SkipToken ==
    /\ InLine
    /\ CurrentToken = "punct"
    /\ tok_index' = tok_index + 1
    /\ UNCHANGED <<tok_lines, tok_line, word_position, word_records>>
    /\ TokenizerFrame

\* A slang term is counted and not recorded
SkipSlang ==
    /\ InLine
    /\ CurrentToken = "slang"
    /\ word_position' = NextWordPosition(word_position)
    /\ tok_index' = tok_index + 1
    /\ UNCHANGED <<tok_lines, tok_line, word_records>>
    /\ TokenizerFrame

\* A word is counted and recorded, whatever the lemma lookup gave
AppendWord ==
    /\ InLine
    /\ CurrentToken = "word"
    /\ word_position' = NextWordPosition(word_position)
    /\ \E lemma_id \in {"lemma", "null"} :
          word_records' = Append(word_records,
                                 [line_id |-> tok_line,
                                  lemma_id |-> lemma_id,
                                  word_position |-> word_position'])
    /\ tok_index' = tok_index + 1
    /\ UNCHANGED <<tok_lines, tok_line>>
    /\ TokenizerFrame

\* The tokens are exhausted: the next line
EndLine ==
    /\ tok_line \in 1..Len(tok_lines)
    /\ tok_index > Len(tok_lines[tok_line].doc)
    /\ tok_line' = tok_line + 1
    /\ tok_index' = 0
    /\ UNCHANGED <<tok_lines, word_position, word_records>>
    /\ TokenizerFrame

NextTokenize ==
    \/ StartLine
    \/ SkipToken
    \/ SkipSlang
    \/ AppendWord
    \/ EndLine

SpecTokenize == InitTokenize /\ [][NextTokenize]_vars

(***************************************************************************)
(* import_chapter.find_phrase_positions: the locator of the chapter import *)
(* works on list indexes, counted from 0, and reports (-1, -1) when the    *)
(* phrase is not in the token list                                         *)
(***************************************************************************)
\* return (-1, -1)
ChapterNotFound == [start |-> -1, end |-> -1]

\* phrase_text.lower().split()
chapter_phrase_words(phrase) == Split(StrLower(phrase))

\* [t['word_text'].lower() for t in tokens]
chapter_token_texts(tokens) == [n \in 1..Len(tokens) |-> StrLower(tokens[n])]

\* The inner loop: every phrase word equals the token text at i + j
ChapterMatchAt(tt, pw, i) ==
    \A j \in 0..(Len(pw) - 1) : tt[i + j + 1] = pw[j + 1]

\* range(len(token_texts) - len(phrase_words) + 1)
ChapterRange(tt, pw) == 0..(Len(tt) - Len(pw))

\* The indexes at which the outer loop finds a match
ChapterStarts(tokens, phrase) ==
    LET tt == chapter_token_texts(tokens)
        pw == chapter_phrase_words(phrase)
    IN  {i \in ChapterRange(tt, pw) : ChapterMatchAt(tt, pw, i)}

Least(S) == CHOOSE i \in S : \A k \in S : i <= k

chapter_find_phrase_positions(phrase, tokens) ==
    LET starts == ChapterStarts(tokens, phrase)
        k == Len(chapter_phrase_words(phrase))
    IN  IF starts = {} THEN ChapterNotFound
        ELSE [start |-> Least(starts), end |-> Least(starts) + k - 1]

\* The word texts of a sentence's tokens
ChapterTokenTexts == {la, Casa, lava}

ChapterTokenLists ==
    UNION {[1..n -> ChapterTokenTexts] : n \in 0..MaxTokens}

\* The phrase texts the detection hands over: empty, blank, one word, several
\* words, other case, doubled space, longer than any token list
ChapterPhrases ==
    {<<>>, <<SPACE>>, la, casa, Sp(la, casa), Sp(la, Casa),
     la \o <<SPACE, SPACE>> \o casa, Sp(casa, lava), Sp(lava, la),
     Sp(Sp(la, casa), Sp(lava, la)), Sp(Sp(la, casa), Sp(lava, Sp(la, la)))}

InitChapter ==
    /\ chap_phrase \in ChapterPhrases
    /\ chap_tokens \in ChapterTokenLists
    /\ chap_pc = "start"
    /\ chap_result = <<>>
    /\ ChapterAlone

\* The loop returns at its first match
ChapterReturnMatch ==
    /\ chap_pc = "start"
    /\ ChapterStarts(chap_tokens, chap_phrase) # {}
    /\ chap_result' = chapter_find_phrase_positions(chap_phrase, chap_tokens)
    /\ chap_pc' = "done"
    /\ UNCHANGED <<chap_phrase, chap_tokens>>
    /\ ChapterFrame

\* The loop ends without a match
ChapterReturnNotFound ==
    /\ chap_pc = "start"
    /\ ChapterStarts(chap_tokens, chap_phrase) = {}
    /\ chap_result' = ChapterNotFound
    /\ chap_pc' = "done"
    /\ UNCHANGED <<chap_phrase, chap_tokens>>
    /\ ChapterFrame

NextChapter == ChapterReturnMatch \/ ChapterReturnNotFound

SpecChapter == InitChapter /\ [][NextChapter]_vars

(***************************************************************************)
(* content_pipeline/generate_fragments.py: the word positions of the       *)
(* fragments of one sentence, counted from 0                               *)
(***************************************************************************)
LAQUO == "U+00AB"
RAQUO == "U+00BB"
DQUOTE == "\""

\* .rstrip('.,;:!?»"\'') and .lstrip('«"\'¿¡')
FragmentRightChars == {".", ",", ";", ":", "!", "?", RAQUO, DQUOTE, APOS}
FragmentLeftChars == {LAQUO, DQUOTE, APOS, IQUEST, IEXCL}

RECURSIVE LStripChars(_, _)
LStripChars(s, chars) ==
    IF s # <<>> /\ Head(s) \in chars THEN LStripChars(Tail(s), chars) ELSE s

RECURSIVE RStripChars(_, _)
RStripChars(s, chars) ==
    IF s # <<>> /\ s[Len(s)] \in chars
    THEN RStripChars(SubSeq(s, 1, Len(s) - 1), chars)
    ELSE s

\* The form of a word that is compared
FragmentCleanWord(w) ==
    StrLower(LStripChars(RStripChars(w, FragmentRightChars),
                         FragmentLeftChars))

\* The inner loop: the fragment matches the sentence words from index i on
FragmentMatchesAt(sw, fw, i) ==
    \A j \in 0..(Len(fw) - 1) :
        /\ i + j < Len(sw)
        /\ FragmentCleanWord(sw[i + j + 1]) = FragmentCleanWord(fw[j + 1])

\* range(start_from, len(sentence_words))
FragmentRange_fromzero(start_from, n) == 0..(n - 1)

FragmentRange(start_from, n) == start_from..(n - 1)

\* The indexes at which the outer loop finds the fragment
FragmentStarts(sentence_text, fragment_text, start_from) ==
    LET sw == Split(sentence_text)
        fw == Split(fragment_text)
    IN  {i \in FragmentRange(start_from, Len(sw)) :
            FragmentMatchesAt(sw, fw, i)}

Positions(s, e, n) == [start |-> s, end |-> e, next |-> n]

calculate_word_positions(sentence_text, fragment_text, start_from) ==
    LET starts == FragmentStarts(sentence_text, fragment_text, start_from)
        k == Len(Split(fragment_text))
    IN  IF starts = {}
        THEN Positions(start_from, start_from + k - 1, start_from + k)
        ELSE LET fragment_start == Least(starts)
                 end_pos == fragment_start + k - 1
             IN  Positions(fragment_start, end_pos, end_pos + 1)

\* A returned triple with the start_from of its call
ReturnedFrom(p, start_from) ==
    [start |-> p.start, end |-> p.end, next |-> p.next,
     start_from |-> start_from]

\* The most fragments of one sentence
MaxFragments == 2

\* Sentences: punctuation and capitals on the words, a repeated word
FragmentSentences ==
    {<<>>,
     Sp(<<IQUEST>> \o <<"L", "a">>, casa \o <<"?">>),
     Sp(Sp(la, casa \o <<",">>), Sp(la, lava \o <<".">>)),
     Sp(Sp(<<LAQUO>> \o la, la \o <<RAQUO>>), lava),
     Sp(lava, Sp(la, Casa))}

\* Fragment texts: empty, one word, two words, with a mark, not in any
\* sentence
FragmentTexts ==
    {<<>>, la, casa, Sp(la, casa), Sp(la, lava), lava \o <<".">>, pa,
     Sp(pa, la)}

FragmentLists == UNION {[1..n -> FragmentTexts] : n \in 0..MaxFragments}

InitFragments ==
    /\ frag_sentence \in FragmentSentences
    /\ frag_list \in FragmentLists
    /\ frag_pc = "loop"
    /\ current_position = 0
    /\ frag_positions = <<>>
    /\ inserted_rows = <<>>
    /\ FragmentsAlone

\* The fragment of the loop's current round
CurrentFragment == frag_list[Len(inserted_rows) + 1]

\* One round of the loop: the positions are calculated from
\* current_position, which moves to next_start, and the row is inserted
InsertRow ==
    /\ frag_pc = "loop"
    /\ Len(inserted_rows) < Len(frag_list)
    /\ LET p == calculate_word_positions(frag_sentence, CurrentFragment,
                                         current_position)
       IN  /\ frag_positions' = ReturnedFrom(p, current_position)
           /\ current_position' = p.next
           /\ inserted_rows' = Append(inserted_rows,
                  [fragment_order |-> Len(inserted_rows) + 1,
                   start_word_position |-> p.start,
                   end_word_position |-> p.end])
    /\ UNCHANGED <<frag_sentence, frag_list, frag_pc>>
    /\ FragmentsFrame

\* The round of a fragment found in the rest of the sentence
InsertMatched ==
    /\ frag_pc = "loop"
    /\ Len(inserted_rows) < Len(frag_list)
    /\ FragmentStarts(frag_sentence, CurrentFragment, current_position) # {}
    /\ InsertRow

\* The round of a fragment that is not found: sequential positioning
InsertFallback ==
    /\ frag_pc = "loop"
    /\ Len(inserted_rows) < Len(frag_list)
    /\ FragmentStarts(frag_sentence, CurrentFragment, current_position) = {}
    /\ InsertRow

\* The insert raises: the positions were calculated, no row is stored and
\* the loop is left
InsertRaises ==
    /\ frag_pc = "loop"
    /\ Len(inserted_rows) < Len(frag_list)
    /\ LET p == calculate_word_positions(frag_sentence, CurrentFragment,
                                         current_position)
       IN  /\ frag_positions' = ReturnedFrom(p, current_position)
           /\ current_position' = p.next
    /\ frag_pc' = "raised"
    /\ UNCHANGED <<frag_sentence, frag_list, inserted_rows>>
    /\ FragmentsFrame

\* return inserted
FragmentsReturn ==
    /\ frag_pc = "loop"
    /\ Len(inserted_rows) = Len(frag_list)
    /\ frag_pc' = "done"
    /\ UNCHANGED <<frag_sentence, frag_list, current_position,
                   frag_positions, inserted_rows>>
    /\ FragmentsFrame

NextFragments ==
    InsertMatched \/ InsertFallback \/ InsertRaises \/ FragmentsReturn

SpecFragments == InitFragments /\ [][NextFragments]_vars

(***************************************************************************)
(* backfill_phrase_slang_occurrences.process_song, run again and again on  *)
(* one song against the store.  The two occurrence tables are sequences of *)
(* rows; an insert is a POST of all records of a run to one table, which   *)
(* stores all of them or none.                                             *)
(***************************************************************************)
\* The most runs of process_song on the song
MaxRuns == 2

SongLine(id, text, texts) ==
    [line_id |-> id, line_text |-> text, words |-> LineWords(texts, 1)]

Expression(id, text) == [id |-> id, text |-> text]

\* The songs: two lines with a phrase and a slang term found in them; no
\* lines; a line without text, two phrases found in one line and a slang
\* term that is in no line
BackfillSongs ==
    {[lines |-> <<SongLine("l1", Sp(la, casa), <<la, casa>>),
                  SongLine("l2", lava, <<lava>>)>>,
      phrases |-> <<Expression("p1", Sp(la, casa))>>,
      slang |-> <<Expression("s1", lava)>>],
     [lines |-> <<>>,
      phrases |-> <<Expression("p1", Sp(la, casa))>>,
      slang |-> <<>>],
     [lines |-> <<SongLine("l1", <<>>, <<>>),
                  SongLine("l2", Sp(Sp(la, casa), lava), <<la, casa, lava>>)>>,
      phrases |-> <<Expression("p1", Sp(la, casa)),
                    Expression("p2", Sp(casa, lava))>>,
      slang |-> <<Expression("s1", pa)>>]}

NewStats ==
    [phrase_occurrences |-> 0, slang_occurrences |-> 0, errors |-> <<>>]

\* What a run did, kept for the properties: the rows of both tables when
\* the run started, the calls of client.insert, whether a fetch failed and
\* whether a lookup of the existing occurrences failed
NewLog ==
    [rows_before |-> <<Len(phrase_occurrences), Len(slang_occurrences)>>,
     inserts |-> 0, fetch_failed |-> FALSE, lookup_failed |-> FALSE]

InitBackfill ==
    /\ bf_song \in BackfillSongs
    /\ bf_pc = "ready"
    /\ bf_runs = 0
    /\ bf_existing = [phrases |-> {}, slang |-> {}]
    /\ bf_records = [phrases |-> <<>>, slang |-> <<>>]
    /\ bf_stats = NewStats
    /\ phrase_occurrences = <<>>
    /\ slang_occurrences = <<>>
    /\ bf_log = [rows_before |-> <<0, 0>>, inserts |-> 0,
                 fetch_failed |-> FALSE, lookup_failed |-> FALSE]
    /\ BackfillAlone

\* The (id, line_id) pairs of a table's rows
Pairs(rows) == {<<rows[n].id, rows[n].line_id>> : n \in 1..Len(rows)}

\* The records of one line for the phrases, or the slang terms: a pair that
\* exists already is skipped, the others are located in the line
LineRecords(line, expressions, existing) ==
    LET positions(x) == FindPhrasePositions(line.line_text, x.text, line.words)
        wanted(x) == /\ <<x.id, line.line_id>> \notin existing
                     /\ positions(x) # None
        record(x) == [id |-> x.id, line_id |-> line.line_id,
                      start_position |-> positions(x).start,
                      end_position |-> positions(x).end]
        found == SelectSeq(expressions, wanted)
    IN  [n \in 1..Len(found) |-> record(found[n])]

\* The lines whose words are asked for
LinesWithText(lines) == {n \in 1..Len(lines) : lines[n].line_text # <<>>}

\* The loop over the lines: a line without text, or whose words cannot be
\* loaded, gives no records
RECURSIVE ScanRecords(_, _, _, _, _)
ScanRecords(lines, n, expressions, existing, failed) ==
    IF n > Len(lines) THEN <<>>
    ELSE (IF n \in LinesWithText(lines) \ failed
          THEN LineRecords(lines[n], expressions, existing)
          ELSE <<>>)
         \o ScanRecords(lines, n + 1, expressions, existing, failed)

\* process_song is called on the song
BackfillStart ==
    /\ bf_pc \in {"ready", "returned"}
    /\ bf_runs < MaxRuns
    /\ bf_runs' = bf_runs + 1
    /\ bf_pc' = "get_phrases"
    /\ bf_stats' = NewStats
    /\ bf_log' = NewLog
    /\ bf_existing' = [phrases |-> {}, slang |-> {}]
    /\ bf_records' = [phrases |-> <<>>, slang |-> <<>>]
    /\ UNCHANGED <<bf_song, phrase_occurrences, slang_occurrences>>
    /\ BackfillFrame

\* A fetch succeeds and the function goes on
Fetched(at, next) ==
    /\ bf_pc = at
    /\ bf_pc' = next
    /\ UNCHANGED <<bf_song, bf_runs, bf_existing, bf_records, bf_stats,
                   bf_log, phrase_occurrences, slang_occurrences>>
    /\ BackfillFrame

\* A fetch that failed and did not end the run
FetchFails_goes_on(at, error) ==
    /\ bf_pc = at
    /\ bf_stats' = [bf_stats EXCEPT !.errors = Append(@, error)]
    /\ bf_log' = [bf_log EXCEPT !.fetch_failed = TRUE]
    /\ bf_pc' = "get_existing"
    /\ UNCHANGED <<bf_song, bf_runs, bf_existing, bf_records,
                   phrase_occurrences, slang_occurrences>>
    /\ BackfillFrame

\* A fetch fails: the error is noted and the function returns
FetchFails(at, error) ==
    /\ bf_pc = at
    /\ bf_stats' = [bf_stats EXCEPT !.errors = Append(@, error)]
    /\ bf_log' = [bf_log EXCEPT !.fetch_failed = TRUE]
    /\ bf_pc' = "returned"
    /\ UNCHANGED <<bf_song, bf_runs, bf_existing, bf_records,
                   phrase_occurrences, slang_occurrences>>
    /\ BackfillFrame

GetSongPhrases ==
    /\ bf_pc = "get_phrases"
    /\ Fetched("get_phrases", "get_slang")

GetSongPhrasesFails ==
    /\ bf_pc = "get_phrases"
    /\ FetchFails("get_phrases", "Failed to get phrases")

GetSongSlang ==
    /\ bf_pc = "get_slang"
    /\ Fetched("get_slang", "get_lines")

GetSongSlangFails ==
    /\ bf_pc = "get_slang"
    /\ FetchFails("get_slang", "Failed to get slang")

GetSongLines ==
    /\ bf_song.lines # <<>>
    /\ Fetched("get_lines", "get_existing")

\* if not lines: return stats
GetNoSongLines ==
    /\ bf_song.lines = <<>>
    /\ Fetched("get_lines", "returned")

GetSongLinesFails ==
    /\ bf_pc = "get_lines"
    /\ FetchFails("get_lines", "Failed to get lines")

\* get_existing_phrase_occurrences and get_existing_slang_occurrences: the
\* pairs of the table, or the empty set when the select fails
ExistingOccurrences(rows, success) == IF success THEN Pairs(rows) ELSE {}

GetExisting(phrases_ok, slang_ok) ==
    /\ bf_pc = "get_existing"
    /\ bf_existing' =
           [phrases |-> ExistingOccurrences(phrase_occurrences, phrases_ok),
            slang |-> ExistingOccurrences(slang_occurrences, slang_ok)]
    /\ bf_log' = [bf_log EXCEPT
                     !.lookup_failed = ~(phrases_ok /\ slang_ok)]
    /\ bf_pc' = "scan"
    /\ UNCHANGED <<bf_song, bf_runs, bf_records, bf_stats,
                   phrase_occurrences, slang_occurrences>>
    /\ BackfillFrame

GetExistingOccurrences ==
    /\ bf_pc = "get_existing"
    /\ GetExisting(TRUE, TRUE)

GetExistingFails ==
    \E phrases_ok, slang_ok \in BOOLEAN :
        /\ ~(phrases_ok /\ slang_ok)
        /\ GetExisting(phrases_ok, slang_ok)

\* One error for each line whose words could not be loaded
WordErrors(lines, failed) ==
    LET numbers == SelectSeq([n \in 1..Len(lines) |-> n],
                             LAMBDA n : n \in failed)
    IN  [k \in 1..Len(numbers) |-> "Failed to get words for line"]

\* The loop over the lines, get_line_words failing for the lines in failed
ScanLines ==
    \E failed \in SUBSET LinesWithText(bf_song.lines) :
        /\ bf_pc = "scan"
        /\ bf_records' =
               [phrases |-> ScanRecords(bf_song.lines, 1, bf_song.phrases,
                                        bf_existing.phrases, failed),
                slang |-> ScanRecords(bf_song.lines, 1, bf_song.slang,
                                      bf_existing.slang, failed)]
        /\ bf_stats' = [bf_stats EXCEPT
                           !.errors = @ \o WordErrors(bf_song.lines, failed)]
        /\ bf_pc' = "insert_phrases"
        /\ UNCHANGED <<bf_song, bf_runs, bf_existing, bf_log,
                       phrase_occurrences, slang_occurrences>>
        /\ BackfillFrame

\* if phrase_occurrence_records: client.insert(...) succeeds
InsertPhrases ==
    /\ bf_pc = "insert_phrases"
    /\ bf_records.phrases # <<>>
    /\ phrase_occurrences' = phrase_occurrences \o bf_records.phrases
    /\ bf_stats' = [bf_stats EXCEPT
                       !.phrase_occurrences = Len(bf_records.phrases)]
    /\ bf_log' = [bf_log EXCEPT !.inserts = @ + 1]
    /\ bf_pc' = "insert_slang"
    /\ UNCHANGED <<bf_song, bf_runs, bf_existing, bf_records,
                   slang_occurrences>>
    /\ BackfillFrame

InsertPhrasesFails ==
    /\ bf_pc = "insert_phrases"
    /\ bf_records.phrases # <<>>
    /\ bf_stats' = [bf_stats EXCEPT
                       !.errors = Append(@, "Failed to insert phrase occurrences")]
    /\ bf_log' = [bf_log EXCEPT !.inserts = @ + 1]
    /\ bf_pc' = "insert_slang"
    /\ UNCHANGED <<bf_song, bf_runs, bf_existing, bf_records,
                   phrase_occurrences, slang_occurrences>>
    /\ BackfillFrame

NoPhraseRecords ==
    /\ bf_records.phrases = <<>>
    /\ Fetched("insert_phrases", "insert_slang")

\* if slang_occurrence_records: client.insert(...) succeeds, and the
\* function returns
InsertSlang ==
    /\ bf_pc = "insert_slang"
    /\ bf_records.slang # <<>>
    /\ slang_occurrences' = slang_occurrences \o bf_records.slang
    /\ bf_stats' = [bf_stats EXCEPT
                       !.slang_occurrences = Len(bf_records.slang)]
    /\ bf_log' = [bf_log EXCEPT !.inserts = @ + 1]
    /\ bf_pc' = "returned"
    /\ UNCHANGED <<bf_song, bf_runs, bf_existing, bf_records,
                   phrase_occurrences>>
    /\ BackfillFrame

InsertSlangFails ==
    /\ bf_pc = "insert_slang"
    /\ bf_records.slang # <<>>
    /\ bf_stats' = [bf_stats EXCEPT
                       !.errors = Append(@, "Failed to insert slang occurrences")]
    /\ bf_log' = [bf_log EXCEPT !.inserts = @ + 1]
    /\ bf_pc' = "returned"
    /\ UNCHANGED <<bf_song, bf_runs, bf_existing, bf_records,
                   phrase_occurrences, slang_occurrences>>
    /\ BackfillFrame

NoSlangRecords ==
    /\ bf_records.slang = <<>>
    /\ Fetched("insert_slang", "returned")

NextBackfill ==
    \/ BackfillStart
    \/ GetSongPhrases
    \/ GetSongPhrasesFails
    \/ GetSongSlang
    \/ GetSongSlangFails
    \/ GetSongLines
    \/ GetNoSongLines
    \/ GetSongLinesFails
    \/ GetExistingOccurrences
    \/ GetExistingFails
    \/ ScanLines
    \/ InsertPhrases
    \/ InsertPhrasesFails
    \/ NoPhraseRecords
    \/ InsertSlang
    \/ InsertSlangFails
    \/ NoSlangRecords

SpecBackfill == InitBackfill /\ [][NextBackfill]_vars

(***************************************************************************)
(* import_lyrics.detect_occurrences, run again and again over the store,   *)
(* which holds one song.  The two occurrence tables are kept as the sets   *)
(* of their rows, so that the runs need no bound: a row inserted a second  *)
(* time is the row that is there.                                          *)
(***************************************************************************)
SongId == "song1"

\* The most store operations that fail: those tried after that succeed
MaxFailures == 1

NoDetectRecords == [phrases |-> <<>>, slang |-> <<>>]

NewDetectStats ==
    [phrase_occurrences |-> 0, slang_occurrences |-> 0, error |-> "None"]

Rows(records) == {records[n] : n \in 1..Len(records)}

\* The song_ids of a table's rows, or no song when the GET fails
SongsOf(rows, success) == IF success /\ rows # {} THEN {SongId} ELSE {}

\* return phrase_songs | slang_songs
get_songs_with_occurrences(phrase_ok, slang_ok) ==
    SongsOf(det_phrase_rows, phrase_ok) \cup SongsOf(det_slang_rows, slang_ok)

\* The records of one line for the phrases, or the slang terms
DetectLineRecords(line, expressions, words) ==
    LET positions(x) == lyrics_find_phrase_positions(line.line_text, x.text,
                                                     words)
        record(x) == [id |-> x.id, line_id |-> line.line_id,
                      start_position |-> positions(x).start,
                      end_position |-> positions(x).end]
        found == SelectSeq(expressions, LAMBDA x : positions(x) # None)
    IN  [n \in 1..Len(found) |-> record(found[n])]

\* The loop over the lines: a line without text gives no records, and a
\* line whose words cannot be loaded is searched with no words
RECURSIVE DetectRecords(_, _, _, _)
DetectRecords(lines, n, expressions, failed) ==
    IF n > Len(lines) THEN <<>>
    ELSE (IF n \in LinesWithText(lines)
          THEN DetectLineRecords(lines[n], expressions,
                                 IF n \in failed THEN <<>>
                                 ELSE lines[n].words)
          ELSE <<>>)
         \o DetectRecords(lines, n + 1, expressions, failed)

\* A song of the store with what the loop over its lines locates in it, for
\* each set of lines whose words cannot be loaded: the locator is a function
\* of the song's texts and words
DetectSong(song) ==
    [lines |-> song.lines, phrases |-> song.phrases, slang |-> song.slang,
     located |->
         [failed \in SUBSET LinesWithText(song.lines) |->
             [phrases |-> DetectRecords(song.lines, 1, song.phrases, failed),
              slang |-> DetectRecords(song.lines, 1, song.slang, failed)]]]

DetectSongs == {DetectSong(song) : song \in BackfillSongs}

InitDetect ==
    /\ det_song \in DetectSongs
    /\ det_pc = "ready"
    /\ completed_songs = {}
    /\ det_records = NoDetectRecords
    /\ det_stats = NewDetectStats
    /\ det_phrase_rows = {}
    /\ det_slang_rows = {}
    /\ det_failures = 0
    /\ DetectAlone

\* What is left as it is by a step that only moves on
DetectKeeps ==
    UNCHANGED <<det_song, completed_songs, det_records, det_stats,
                det_phrase_rows, det_slang_rows, det_failures>>

\* One more store operation fails, if one may
OneMoreFailure ==
    /\ det_failures < MaxFailures
    /\ det_failures' = det_failures + 1

\* detect_occurrences is called: the songs that have occurrence records
DetectStart(phrase_ok, slang_ok) ==
    /\ det_pc = "ready"
    /\ completed_songs' = get_songs_with_occurrences(phrase_ok, slang_ok)
    /\ det_records' = NoDetectRecords
    /\ det_stats' = NewDetectStats
    /\ det_pc' = "load_songs"
    /\ IF phrase_ok /\ slang_ok THEN UNCHANGED det_failures
       ELSE OneMoreFailure
    /\ UNCHANGED <<det_song, det_phrase_rows, det_slang_rows>>
    /\ DetectFrame

GetSongsWithOccurrences ==
    /\ det_pc = "ready"
    /\ DetectStart(TRUE, TRUE)

GetSongsWithOccurrencesFails ==
    \E phrase_ok, slang_ok \in BOOLEAN :
        /\ ~(phrase_ok /\ slang_ok)
        /\ DetectStart(phrase_ok, slang_ok)

\* A step of detect_occurrences moves on
DetectGoes(at, next) ==
    /\ det_pc = at
    /\ det_pc' = next
    /\ DetectKeeps
    /\ DetectFrame

\* A step fails and the run is over
DetectFails(at, error) ==
    /\ det_pc = at
    /\ det_stats' = [det_stats EXCEPT !.error = error]
    /\ det_pc' = "ready"
    /\ OneMoreFailure
    /\ UNCHANGED <<det_song, completed_songs, det_records, det_phrase_rows,
                   det_slang_rows>>
    /\ DetectFrame

LoadSongs ==
    /\ det_pc = "load_songs"
    /\ DetectGoes("load_songs", "load_lines")

LoadSongsFails ==
    /\ det_pc = "load_songs"
    /\ DetectFails("load_songs", "Failed to load songs")

LoadLines ==
    /\ det_pc = "load_lines"
    /\ DetectGoes("load_lines", "song")

LoadLinesFails ==
    /\ det_pc = "load_lines"
    /\ DetectFails("load_lines", "Failed to load lines")

\* if song_id in completed_songs: continue
SkipProcessed ==
    /\ SongId \in completed_songs
    /\ DetectGoes("song", "ready")

\* if not lines: continue
SkipNoLines ==
    /\ SongId \notin completed_songs
    /\ det_song.lines = <<>>
    /\ DetectGoes("song", "ready")

\* detect_occurrences_for_song is called
ProcessSong ==
    /\ SongId \notin completed_songs
    /\ det_song.lines # <<>>
    /\ DetectGoes("song", "get_phrases")

GetPhrasesForDetection ==
    /\ det_pc = "get_phrases"
    /\ DetectGoes("get_phrases", "get_slang")

GetPhrasesForDetectionFails ==
    /\ det_pc = "get_phrases"
    /\ DetectFails("get_phrases", "Failed to get phrases")

GetSlangForDetection ==
    /\ det_pc = "get_slang"
    /\ DetectGoes("get_slang", "scan")

GetSlangForDetectionFails ==
    /\ det_pc = "get_slang"
    /\ DetectFails("get_slang", "Failed to get slang")

\* The loop over the lines, get_line_words_for_detection failing for the
\* lines in failed
DetectScan(failed) ==
    /\ det_pc = "scan"
    /\ det_records' = det_song.located[failed]
    /\ det_pc' = "insert_phrases"
    /\ IF failed = {} THEN UNCHANGED det_failures ELSE OneMoreFailure
    /\ UNCHANGED <<det_song, completed_songs, det_stats, det_phrase_rows,
                   det_slang_rows>>
    /\ DetectFrame

ScanSongLines ==
    /\ det_pc = "scan"
    /\ DetectScan({})

ScanSongLinesWordsFail ==
    \E failed \in SUBSET LinesWithText(det_song.lines) :
        /\ failed # {}
        /\ DetectScan(failed)

InsertPhraseRecords ==
    /\ det_pc = "insert_phrases"
    /\ det_records.phrases # <<>>
    /\ det_phrase_rows' = det_phrase_rows \cup Rows(det_records.phrases)
    /\ det_stats' = [det_stats EXCEPT
                        !.phrase_occurrences = Len(det_records.phrases)]
    /\ det_pc' = "insert_slang"
    /\ UNCHANGED <<det_song, completed_songs, det_records, det_slang_rows,
                   det_failures>>
    /\ DetectFrame

InsertPhraseRecordsFails ==
    /\ det_records.phrases # <<>>
    /\ DetectFails("insert_phrases", "Failed to insert phrase occurrences")

NoPhraseRecordsFound ==
    /\ det_records.phrases = <<>>
    /\ DetectGoes("insert_phrases", "insert_slang")

InsertSlangRecords ==
    /\ det_pc = "insert_slang"
    /\ det_records.slang # <<>>
    /\ det_slang_rows' = det_slang_rows \cup Rows(det_records.slang)
    /\ det_stats' = [det_stats EXCEPT
                        !.slang_occurrences = Len(det_records.slang)]
    /\ det_pc' = "ready"
    /\ UNCHANGED <<det_song, completed_songs, det_records, det_phrase_rows,
                   det_failures>>
    /\ DetectFrame

InsertSlangRecordsFails ==
    /\ det_records.slang # <<>>
    /\ DetectFails("insert_slang", "Failed to insert slang occurrences")

NoSlangRecordsFound ==
    /\ det_records.slang = <<>>
    /\ DetectGoes("insert_slang", "ready")

NextDetect ==
    \/ GetSongsWithOccurrences
    \/ GetSongsWithOccurrencesFails
    \/ LoadSongs
    \/ LoadSongsFails
    \/ LoadLines
    \/ LoadLinesFails
    \/ SkipProcessed
    \/ SkipNoLines
    \/ ProcessSong
    \/ GetPhrasesForDetection
    \/ GetPhrasesForDetectionFails
    \/ GetSlangForDetection
    \/ GetSlangForDetectionFails
    \/ ScanSongLines
    \/ ScanSongLinesWordsFail
    \/ InsertPhraseRecords
    \/ InsertPhraseRecordsFails
    \/ NoPhraseRecordsFound
    \/ InsertSlangRecords
    \/ InsertSlangRecordsFails
    \/ NoSlangRecordsFound

\* detect_occurrences is run again and again; the store operations fail
\* MaxFailures times at most, so that every one that is tried after that
\* succeeds
DetectFairness == WF_vars(NextDetect)

SpecDetect == InitDetect /\ [][NextDetect]_vars /\ DetectFairness

(***************************************************************************)
(* Properties                                                              *)
(***************************************************************************)
Returned == pc = "done"

\* The expression's words and a token's text in normalized form
ExprWords == Split(normalize_for_search(phrase_text))
TokenNorm(k) == normalize_for_search(line_words[k].word_text)
TokenTextsOf(words) == [k \in 1..Len(words) |-> words[k].word_text]
PositionsOf(words) == {words[k].word_position : k \in 1..Len(words)}

IsShortWord(w) == Len(w) < 3
IsSingleShort == Len(ExprWords) = 1 /\ IsShortWord(ExprWords[1])
NeedsCoarseCheck ==
    \/ Len(ExprWords) > 1
    \/ Len(ExprWords) = 1 /\ ~IsShortWord(ExprWords[1])

\* a is a proper extension of b: b is a prefix of a and a is longer
StartsWithMore(a, b) == Len(a) > Len(b) /\ SubSeq(a, 1, Len(b)) = b

\* C1. Short-word exactness: every expression word shorter than 3 characters
\* is matched to a token whose normalized text is exactly that word.
C1_ShortWordExact ==
    (Returned /\ result.found) =>
        \A j \in 1..Len(ExprWords) :
            IsShortWord(ExprWords[j]) =>
                /\ match_index + j - 1 \in 1..Len(line_words)
                /\ TokenNorm(match_index + j - 1) = ExprWords[j]

\* The short word "la" is found at the second token, after a token ("lava")
\* that merely starts with it
C1_Witness ==
    /\ Returned /\ result.found
    /\ ExprWords = <<la>>
    /\ match_index = 2
    /\ StartsWithMore(TokenNorm(1), la)
    /\ result = Span(line_words[2].word_position, line_words[2].word_position)

\* The line contains the expression as a delimited substring: some variant
\* of the expression, with any of its apostrophes left out, occurs in the
\* line between non-word characters or the ends of the line
RECURSIVE DropAt(_, _, _)
DropAt(pat, D, k) ==
    IF k > Len(pat) THEN <<>>
    ELSE (IF k \in D THEN <<>> ELSE <<pat[k]>>) \o DropAt(pat, D, k + 1)

ApostropheVariants(pat) ==
    {DropAt(pat, D, 1) : D \in SUBSET {k \in 1..Len(pat) : pat[k] = APOS}}

OccursDelimited(line, v) ==
    \E a \in 1..(Len(line) - Len(v) + 1) :
        /\ SubSeq(line, a, a + Len(v) - 1) = v
        /\ (a = 1 \/ ~IsWordChar(line[a - 1]))
        /\ (a + Len(v) > Len(line) \/ ~IsWordChar(line[a + Len(v)]))

DelimitedContains(line, phrase) ==
    \E v \in ApostropheVariants(normalize_text(phrase)) :
        OccursDelimited(normalize_text(line), v)

\* C2. Boundary rejection: for a multi-word expression or a single word of 3
\* or more characters, a line that does not contain the expression as a
\* delimited substring gives not-found, whatever the tokens are.
C2_BoundaryRejection ==
    (Returned /\ NeedsCoarseCheck
        /\ ~DelimitedContains(line_text, phrase_text)) => ~result.found

\* "casa" against "No voy a casar a nadie", with a token "casa" in the list
C2_Witness ==
    /\ Returned
    /\ line_text = CasarLine
    /\ ExprWords = <<casa>>
    /\ \E k \in 1..Len(line_words) : TokenNorm(k) = casa
    /\ ~result.found

IsWord(w) == w # <<>> /\ \A k \in 1..Len(w) : IsWordChar(w[k])

FirstTokenLike(w) ==
    Min({k \in 1..Len(line_words) : TokenNorm(k) = normalize_for_search(w)})

\* C3. Contraction equivalence, both directions: with the line text being
\* the token texts joined by spaces, the expression w' matches a token w and
\* the expression w matches a token w'; the result is (p,p), p the position
\* of the first token with that normalized text.
C3_ContractionBothWays ==
    (Returned /\ line_text = JoinWords(TokenTextsOf(line_words))) =>
        \A k \in 1..Len(line_words) :
            LET t == line_words[k].word_text
            IN  (\/ IsWord(t) /\ phrase_text = Q(t)
                 \/ IsWord(phrase_text) /\ t = Q(phrase_text))
                => /\ result.found
                   /\ match_index = FirstTokenLike(t)
                   /\ result = Span(line_words[match_index].word_position,
                                    line_words[match_index].word_position)

\* The expression "Casa" matches the token "Casa'" that follows another token
C3_Witness ==
    /\ Returned
    /\ line_text = JoinWords(TokenTextsOf(line_words))
    /\ phrase_text = Casa
    /\ Len(line_words) >= 2
    /\ line_words[2].word_text = Q(Casa)
    /\ match_index = 2
    /\ result = Span(line_words[2].word_position, line_words[2].word_position)

\* The expression "la'" matches the token "la"
C3_WitnessExprApostrophe ==
    /\ Returned
    /\ line_text = JoinWords(TokenTextsOf(line_words))
    /\ phrase_text = Q(la)
    /\ match_index > 0
    /\ line_words[match_index].word_text = la
    /\ result.found

\* The alignment rule for one expression word and one normalized token text:
\* equality for a short word, equality up to trailing apostrophes otherwise
AlignsWith(word, tok) ==
    IF IsShortWord(word) THEN tok = word
    ELSE tok = word \/ RStripApos(tok) = RStripApos(word)

\* The window starts at which every expression word aligns with its token
FullWindows ==
    {i \in 1..(Len(line_words) - Len(ExprWords) + 1) :
        \A j \in 1..Len(ExprWords) :
            AlignsWith(ExprWords[j], TokenNorm(i + j - 1))}

WindowPositionSet(i) ==
    {line_words[i + j - 1].word_position : j \in 1..Len(ExprWords)}

\* C4. Multi-word leftmost policy: a multi-word match is the window with the
\* smallest start index among the windows that fully match.
C4_Leftmost ==
    (Returned /\ Len(ExprWords) > 1 /\ result.found) =>
        /\ FullWindows # {}
        /\ match_index = Min(FullWindows)
        /\ result = Span(Min(WindowPositionSet(Min(FullWindows))),
                         Max(WindowPositionSet(Min(FullWindows))))

\* Two windows match and the first is returned
C4_Witness ==
    /\ Returned /\ result.found
    /\ Len(ExprWords) > 1
    /\ Cardinality(FullWindows) > 1
    /\ match_index = 1
    /\ Max(FullWindows) > 1

\* C5. Span correctness: start <= end, both are word_position values of the
\* supplied tokens, and for a multi-word match they are the minimum and the
\* maximum position of the matched window's tokens.
C5_SpanCorrect ==
    (Returned /\ result.found) =>
        /\ result.start <= result.end
        /\ result.start \in PositionsOf(line_words)
        /\ result.end \in PositionsOf(line_words)
        /\ Len(ExprWords) > 1 =>
              /\ result.start = Min(WindowPositionSet(match_index))
              /\ result.end = Max(WindowPositionSet(match_index))

\* A three-word match over tokens whose positions have gaps
C5_Witness ==
    /\ Returned /\ result.found
    /\ Len(ExprWords) = 3
    /\ result.start < result.end
    /\ result.end - result.start > 2

NoStrippedPunctuation(words) ==
    \A k \in 1..Len(words) : \A n \in 1..Len(words[k].word_text) :
        words[k].word_text[n] \notin StrippedPunctuation

\* The starts of the runs of consecutive tokens whose normalized texts are
\* the expression's words
EqualRuns ==
    {i \in 1..(Len(line_words) - Len(ExprWords) + 1) :
        \A j \in 1..Len(ExprWords) : TokenNorm(i + j - 1) = ExprWords[j]}

\* C6. Completeness of the two-stage match: when the line text is the token
\* texts joined by single spaces, the tokens carry no stripped punctuation
\* and the expression's words equal, after normalization, a run of
\* consecutive tokens, the span of the leftmost such run is returned.
C6_Completeness ==
    (/\ Returned
     /\ line_text = JoinWords(TokenTextsOf(line_words))
     /\ NoStrippedPunctuation(line_words)
     /\ ExprWords # <<>>
     /\ EqualRuns # {})
    => /\ result.found
       /\ match_index = Min(EqualRuns)
       /\ result = Span(Min(WindowPositionSet(Min(EqualRuns))),
                        Max(WindowPositionSet(Min(EqualRuns))))

\* The expression differs from the line only in apostrophes: it has neither
\* stripped punctuation nor repeated spaces
ExprIsPlain ==
    RemoveChars(normalize_text(phrase_text), {APOS}) = JoinWords(ExprWords)

\* C6, the case of an expression and a line that differ only in apostrophes
C6_ApostropheOnly == ExprIsPlain => C6_Completeness

\* C7. Absent word means not-found: when some word of the expression equals
\* no token's normalized text, even up to trailing apostrophes, the result
\* is not-found.
C7_AbsentWord ==
    (/\ Returned
     /\ \E j \in 1..Len(ExprWords) : \A k \in 1..Len(line_words) :
            RStripApos(TokenNorm(k)) # RStripApos(ExprWords[j]))
    => ~result.found

\* "la casa" against the tokens of "la lava": the first word is a token, the
\* second is not
C7_Witness ==
    /\ Returned
    /\ ExprWords = <<la, casa>>
    /\ line_text = JoinWords(TokenTextsOf(line_words))
    /\ \E k \in 1..Len(line_words) : TokenNorm(k) = la
    /\ \A k \in 1..Len(line_words) : TokenNorm(k) # casa
    /\ ~result.found

SameInputs(a, b) ==
    /\ a.line_text = b.line_text
    /\ a.phrase_text = b.phrase_text
    /\ a.line_words = b.line_words

C9_CaseA_AsStated ==
    (Returned /\ (line_text = <<>> \/ line_words = <<>>)) => ~result.found

\* C9 as amended. Not-found whenever the token list is empty, and whenever
\* the line text is empty unless the expression is a single word shorter
\* than 3 characters, which is looked up in the tokens alone.
C9_CaseA ==
    (Returned /\ (line_words = <<>> \/ (line_text = <<>> /\ ~IsSingleShort)))
        => ~result.found

\* An empty line with a token "lava" and the expression "lava"
C9_Witness ==
    /\ Returned
    /\ line_text = <<>>
    /\ line_words # <<>>
    /\ ExprWords = <<lava>>
    /\ \E k \in 1..Len(line_words) : TokenNorm(k) = lava
    /\ ~result.found

HasApostrophe(w) == \E n \in 1..Len(w) : w[n] \in {APOS, RSQUO}

\* C10. The normalizer's output holds neither the ASCII apostrophe nor the
\* right single quotation mark: none of the normalized expression words and
\* none of the normalized token texts of a call does.
C10_NoApostrophes ==
    Returned =>
        /\ \A j \in 1..Len(phrase_words) : ~HasApostrophe(phrase_words[j])
        /\ \A k \in 1..Len(normalized_words) :
              ~HasApostrophe(normalized_words[k].norm)

\* The ASCII apostrophe alone is removed
C10_NoAsciiApostrophe ==
    Returned =>
        /\ \A j \in 1..Len(phrase_words) :
              \A n \in 1..Len(phrase_words[j]) : phrase_words[j][n] # APOS
        /\ \A k \in 1..Len(normalized_words) :
              \A n \in 1..Len(normalized_words[k].norm) :
                  normalized_words[k].norm[n] # APOS

\* The eight punctuation marks the normalizer is documented to strip, and
\* the two apostrophe characters
PunctuationMarks == {IQUEST, "?", IEXCL, "!", ".", ",", ";", ":"}
ApostropheMarks == {APOS, RSQUO}
Without(s, chars) == SelectSeq(s, LAMBDA c : c \notin chars)
HoldsNone(s, chars) == \A n \in 1..Len(s) : s[n] \notin chars

\* The expression has been normalized by this call
ExprNormalized == Returned /\ line_words # <<>>

\* C11, as stated. The normalizer's output holds none of the eight
\* punctuation marks, and every other character of the loosely-normalized
\* input is kept in its original order.
C11_OnlyPunctuationStripped ==
    ExprNormalized =>
        /\ HoldsNone(phrase_lower, PunctuationMarks)
        /\ phrase_lower = Without(normalize_text(phrase_text),
                                  PunctuationMarks)

\* C11, amended. The normalizer's output holds none of the eight punctuation
\* marks, and every character of the loosely-normalized input that is
\* neither one of them nor an apostrophe is kept in its original order.
C11_PunctuationStripped ==
    ExprNormalized =>
        /\ HoldsNone(phrase_lower, PunctuationMarks)
        /\ Without(phrase_lower, ApostropheMarks)
             = Without(normalize_text(phrase_text),
                       PunctuationMarks \cup ApostropheMarks)
        /\ \A k \in 1..Len(normalized_words) :
              /\ HoldsNone(normalized_words[k].norm, PunctuationMarks)
              /\ Without(normalized_words[k].norm, ApostropheMarks)
                   = Without(normalize_text(line_words[k].word_text),
                             PunctuationMarks \cup ApostropheMarks)

\* "la casa." is normalized to "la casa"
C11_Witness ==
    /\ ExprNormalized
    /\ phrase_text = Sp(la, casa) \o <<".">>
    /\ phrase_lower = Sp(la, casa)

\* C14. Frame: no step of a call changes the supplied token list; it holds
\* the same tokens in the same order, with the same word_text and
\* word_position, on every path, found or not-found.
C14_TokensUnchanged == [][line_words' = line_words]_vars

\* A call has returned a match on the token "Casa'", whose normalized copy is
\* "casa" while the token itself still reads "Casa'"
C14_Witness ==
    /\ Returned /\ result.found
    /\ match_index = 1
    /\ line_words[1].word_text = Q(Casa)
    /\ normalized_words[1].norm = casa

\* The list indexes of the tokens whose normalized text is the word itself
ExactTokens(word) == {k \in 1..Len(line_words) : TokenNorm(k) = word}

\* (p,p) for the token at list index k
TokenSpan(k) == Span(line_words[k].word_position, line_words[k].word_position)

\* C15. Short single-word path: for a single-word expression of normalized
\* length < 3 the result is (p,p) for the first token in list order whose
\* normalized text equals the word, else not-found; the line text takes no
\* part in it and the coarse containment check is not run.
C15_ShortPathIgnoresLine ==
    (Returned /\ line_words # <<>> /\ IsSingleShort) =>
        /\ coarse_check = "skipped"
        /\ IF ExactTokens(ExprWords[1]) = {}
           THEN result = None
           ELSE /\ match_index = Min(ExactTokens(ExprWords[1]))
                /\ result = TokenSpan(match_index)

\* "la" is found at its second token although the line text, "No voy a casar
\* a nadie", does not contain it
C15_Witness ==
    /\ Returned /\ IsSingleShort
    /\ line_text = CasarLine
    /\ ~DelimitedContains(line_text, phrase_text)
    /\ ExprWords = <<la>>
    /\ ExactTokens(la) # {}
    /\ 1 \notin ExactTokens(la)
    /\ result = TokenSpan(Min(ExactTokens(la)))

\* The expression is a single word of 3 or more normalized characters
IsSingleLong == Len(ExprWords) = 1 /\ ~IsShortWord(ExprWords[1])

\* The list indexes of the tokens whose normalized text is the word or is
\* contraction-equivalent to it
AlignedTokens(word) ==
    {k \in 1..Len(line_words) : AlignsWith(word, TokenNorm(k))}

\* C16. Long single-word path: for a single-word expression of normalized
\* length >= 3 whose coarse containment check passes, the result is (p,p), p
\* the position of the first token in list order whose normalized text equals
\* the word or is contraction-equivalent to it, and not-found when there is
\* no such token.
C16_LongPathFirstToken ==
    (Returned /\ line_words # <<>> /\ IsSingleLong
        /\ coarse_check = "passed") =>
        IF AlignedTokens(ExprWords[1]) = {}
        THEN result = None
        ELSE /\ match_index = Min(AlignedTokens(ExprWords[1]))
             /\ result = TokenSpan(match_index)

\* "lava" is found at the second token of a list whose third token is
\* "lava" as well
C16_Witness ==
    /\ Returned /\ IsSingleLong
    /\ coarse_check = "passed"
    /\ ExprWords = <<lava>>
    /\ AlignedTokens(lava) = {2, 3}
    /\ result = TokenSpan(2)

\* The check passes and no token qualifies: not-found
C16_WitnessNone ==
    /\ Returned /\ IsSingleLong
    /\ coarse_check = "passed"
    /\ line_words # <<>>
    /\ AlignedTokens(ExprWords[1]) = {}
    /\ result = None

\* The call ran the coarse containment check
CoarseChecked == Returned /\ coarse_check # "skipped"

\* C17. Coarse containment check: phrase_exists_in_line(line, expr) is true
\* exactly when the loosely-normalized line contains the loosely-normalized
\* expression, each apostrophe of the expression standing for zero or one
\* apostrophe, preceded by the start of the line or a non-word character and
\* followed by the end of the line or a non-word character.  It is stated of
\* the outcome a call recorded and of the function on the inputs of every
\* call.
C17_CoarseCheck ==
    /\ CoarseChecked =>
          (coarse_check = "passed"
              <=> DelimitedContains(line_text, phrase_text))
    /\ phrase_exists_in_line(line_text, phrase_text)
          <=> DelimitedContains(line_text, phrase_text)

\* The check passed for "lava'" on the line "pa' la casa lava": the
\* expression's apostrophe matched nothing, in the middle of the line
C17_Witness ==
    /\ CoarseChecked
    /\ coarse_check = "passed"
    /\ phrase_text = Q(lava)
    /\ line_text = VocabularyLine

\* The check failed for "casa" on "No voy a casar a nadie"
C17_WitnessFailed ==
    /\ CoarseChecked
    /\ coarse_check = "failed"
    /\ phrase_text = casa
    /\ line_text = CasarLine

\* Token text tok matches expression word w: exactly when w is shorter than
\* 3 characters, exactly or with trailing apostrophes disregarded otherwise
PairAccepted(w, tok) ==
    \/ tok = w
    \/ Len(w) >= 3 /\ RStripApos(tok) = RStripApos(w)

\* C18. Window soundness: a span returned for an expression of k >= 2 words
\* comes with a start index i such that, for every j < k, the normalized
\* text of token i+j matches expression word j, and the span is made of the
\* positions of exactly those k tokens: its ends are two of their positions
\* and all of their positions lie within it.
C18_WindowSound ==
    (Returned /\ result.found /\ Len(ExprWords) >= 2) =>
        \E i \in 1..Len(line_words) :
            /\ i + Len(ExprWords) - 1 <= Len(line_words)
            /\ i = match_index
            /\ \A j \in 0..(Len(ExprWords) - 1) :
                  PairAccepted(ExprWords[j + 1], TokenNorm(i + j))
            /\ LET window == {line_words[i + j].word_position :
                                 j \in 0..(Len(ExprWords) - 1)}
               IN  /\ result.start \in window
                   /\ result.end \in window
                   /\ \A p \in window : result.start <= p /\ p <= result.end

\* "la casa" is found in the window of the second and third token, "la" and
\* "Casa'"
C18_Witness ==
    /\ Returned /\ result.found
    /\ ExprWords = <<la, casa>>
    /\ match_index = 2
    /\ line_words[2].word_text = la
    /\ line_words[3].word_text = Q(Casa)
    /\ result = Span(line_words[2].word_position, line_words[3].word_position)

\* The token list's positions are strictly increasing in list order
StrictlyIncreasing(words) ==
    \A n \in 1..(Len(words) - 1) :
        words[n].word_position < words[n + 1].word_position

\* C19. With strictly increasing token positions, the span of a multi-word
\* match starts at the position of the window's first token and ends at the
\* position of its last token, and the tokens whose position lies in
\* [start, end] are exactly the k tokens of the window.
C19_SpanIsWindow ==
    (Returned /\ result.found /\ Len(ExprWords) >= 2
        /\ StrictlyIncreasing(line_words)) =>
        LET first == match_index
            last == match_index + Len(ExprWords) - 1
        IN  /\ first >= 1 /\ last <= Len(line_words)
            /\ result.start = line_words[first].word_position
            /\ result.end = line_words[last].word_position
            /\ {n \in 1..Len(line_words) :
                   /\ result.start <= line_words[n].word_position
                   /\ line_words[n].word_position <= result.end}
                 = first..last

\* A two-word match in the last two of three tokens, the positions two apart
C19_Witness ==
    /\ Returned /\ result.found
    /\ Len(ExprWords) = 2
    /\ Len(line_words) = 3
    /\ StrictlyIncreasing(line_words)
    /\ match_index = 2
    /\ result.end = result.start + 2
    /\ line_words[1].word_position < result.start

\* The expression is empty, whitespace-only, or made only of the given marks
OnlyMarks(text, marks) ==
    \/ text = <<>>
    \/ \A n \in 1..Len(text) : IsSpace(text[n])
    \/ \A n \in 1..Len(text) : text[n] \in marks

\* The list indexes of the tokens a returned match is made of
MatchedTokens ==
    IF Returned /\ result.found
    THEN match_index..(match_index + Len(ExprWords) - 1)
    ELSE {}

\* C12. Malformed input degrades to not-found: an expression that is empty,
\* whitespace-only, or made only of apostrophes and stripped punctuation
\* yields not-found; a token whose normalized text is empty is never a
\* matched token; and the outcome of a call on such input is a result,
\* not-found or a span, never an error.
C12_MalformedNotFound ==
    /\ (Returned /\ OnlyMarks(phrase_text,
                              ApostropheMarks \cup PunctuationMarks))
          => result = None
    /\ \A n \in MatchedTokens :
          n \in 1..Len(line_words) /\ TokenNorm(n) # <<>>
    /\ Returned => (result = None \/ result.found)

\* The same with the ASCII apostrophe as the only apostrophe
C12_AsciiMalformedNotFound ==
    /\ (Returned /\ OnlyMarks(phrase_text, {APOS} \cup PunctuationMarks))
          => result = None
    /\ \A n \in MatchedTokens :
          n \in 1..Len(line_words) /\ TokenNorm(n) # <<>>
    /\ Returned => (result = None \/ result.found)

\* A list with a blank token gave a match on another token
C12_WitnessBlankToken ==
    /\ Returned /\ result.found
    /\ \E n \in 1..Len(line_words) : TokenNorm(n) = <<>>

\* The arguments thread t was called with
ArgumentsOf(t) ==
    [line_text |-> calls[t].line_text, phrase_text |-> calls[t].phrase_text,
     line_words |-> calls[t].line_words]

\* A thread that has returned holds the value of the same call run alone
SoloResults ==
    \A t \in DOMAIN calls :
        /\ calls[t].pc # "error"
        /\ calls[t].pc = "done" =>
              calls[t].result = FindPhrasePositions(calls[t].line_text,
                                                    calls[t].phrase_text,
                                                    calls[t].line_words)

\* A step changes the frame of one thread only and no thread's arguments
OwnFrameOnly ==
    /\ DOMAIN calls' = DOMAIN calls
    /\ \A t \in DOMAIN calls :
          /\ ArgumentsOf(t)' = ArgumentsOf(t)
          /\ calls'[t] # calls[t] =>
                \A u \in DOMAIN calls \ {t} : calls'[u] = calls[u]

\* C13. Concurrency safety: with the calls' statements interleaved in every
\* order, over the same or different arguments, each call returns the result
\* of the same call run alone, and no statement of one call changes the
\* state of another.
C13_ConcurrencySafe == []SoloResults /\ [][OwnFrameOnly]_vars

\* The first thread has returned its match while the second, called with the
\* same line and the same word list for another expression, is comparing
\* its second word
C13_Witness ==
    /\ calls # <<>>
    /\ calls[1].pc = "done" /\ calls[1].result.found
    /\ calls[2].pc \in {"long_loop", "pair_loop"}
    /\ calls[2].comparisons > 0
    /\ calls[2].line_words = calls[1].line_words
    /\ calls[2].phrase_text # calls[1].phrase_text

\* The number of words of the thread's expression after normalization
ExprLength(t) == Len(Split(normalize_for_search(calls[t].phrase_text)))

\* No call has compared more word pairs than len(tokens) x len(expr_words),
\* read a token beyond the last one, or failed
WorkBounded ==
    \A t \in DOMAIN calls :
        /\ calls[t].comparisons <= Len(calls[t].line_words) * ExprLength(t)
        /\ calls[t].last_read <= Len(calls[t].line_words)
        /\ calls[t].pc # "error"

AllReturned == \A t \in DOMAIN calls : calls[t].pc = "done"

\* C20. Bounded work: every call terminates, and its scan compares at most
\* len(tokens) x len(expr_words) word pairs and never reads a token index at
\* or beyond len(tokens).
C20_BoundedWork == []WorkBounded /\ <>AllReturned

\* A call has returned after comparing more word pairs than the list has
\* tokens, the last token among them: its scan went through two windows
C20_Witness ==
    /\ calls # <<>>
    /\ AllReturned
    /\ \E t \in DOMAIN calls :
          /\ ExprLength(t) = 2
          /\ calls[t].comparisons > Len(calls[t].line_words)
          /\ calls[t].last_read = Len(calls[t].line_words)
          /\ calls[t].result.found

\* The normalizer has been applied twice
AppliedTwice == Len(norm_out) = 2

\* C29. The normalizer is idempotent: applied to its own output it returns
\* that output unchanged, for every input string.
C29_Idempotent == AppliedTwice => norm_out[2] = norm_out[1]

\* Idempotence holds for the inputs whose output neither starts nor ends with
\* whitespace and has no combining accent after an "a"
C29_IdempotentOnTrimmed ==
    (AppliedTwice
        /\ norm_out[1] = Strip(norm_out[1])
        /\ \A n \in 2..Len(norm_out[1]) :
              ~(norm_out[1][n] = COMBINING_ACUTE /\ norm_out[1][n - 1] = "a"))
        => norm_out[2] = norm_out[1]

\* The expressions of the catalogue with the same normalized form as the
\* call's expression
SameNormalForm ==
    {other \in PhraseTexts :
        normalize_for_search(other) = normalize_for_search(phrase_text)}

\* C26. Expression normal-form invariance: the result depends on the
\* expression only through its normalized form; an expression with the same
\* normalized form gives the same result on the same line and tokens.
C26_NormalFormInvariance ==
    Returned =>
        \A other \in SameNormalForm :
            FindPhrasePositions(line_text, other, line_words) = result

\* The result is the same for the expressions with the same loosely
\* normalized form, which differ in case and surrounding whitespace only
C26_LooseFormInvariance ==
    Returned =>
        \A other \in PhraseTexts :
            normalize_text(other) = normalize_text(phrase_text) =>
                FindPhrasePositions(line_text, other, line_words) = result

\* The window starts at which every expression word equals the normalized
\* text of its token
ExactWindows ==
    {i \in 1..(Len(line_words) - Len(ExprWords) + 1) :
        \A j \in 1..Len(ExprWords) : TokenNorm(i + j - 1) = ExprWords[j]}

\* The locator that accepts exact normalized equality only, for words of any
\* length: the same early returns and containment check, then the first
\* window of equal words
ExactLocator ==
    IF line_words = <<>> \/ ExprWords = <<>> THEN None
    ELSE IF NeedsCoarseCheck /\ ~DelimitedContains(line_text, phrase_text)
    THEN None
    ELSE IF ExactWindows = {} THEN None
    ELSE Span(Min(WindowPositionSet(Min(ExactWindows))),
              Max(WindowPositionSet(Min(ExactWindows))))

\* C27. The contraction branches are redundant: normalization has removed
\* every ASCII apostrophe from the expression words and the token texts, so
\* every call returns what the exact-equality locator returns.
C27_ContractionRedundant == Returned => result = ExactLocator

\* "lava'" is found at the token "lava" through a long-word comparison: the
\* raw texts differ by the apostrophe, the normalized texts are equal
C27_Witness ==
    /\ Returned /\ result.found
    /\ phrase_text = Q(lava)
    /\ line_words[match_index].word_text = lava
    /\ TokenNorm(match_index) = ExprWords[1]
    /\ result = ExactLocator

\* C28. The two copies agree: on the line, expression and token list of
\* every call, the locator of backfill_phrase_slang_occurrences.py and the
\* locator of import_lyrics.py return the same span or both not-found.
C28_CopiesAgree ==
    Returned =>
        result = lyrics_find_phrase_positions(line_text, phrase_text,
                                              line_words)

\* Both copies find "la casa" in the tokens from the second one on
C28_Witness ==
    /\ Returned /\ result.found
    /\ phrase_text = Sp(la, casa)
    /\ match_index = 2
    /\ lyrics_find_phrase_positions(line_text, phrase_text, line_words)
         = Span(line_words[2].word_position,
                line_words[Len(line_words)].word_position)

\* The word records built for a line, in the order they were appended
RecordsOfLine(id) == SelectSeq(word_records, LAMBDA r : r.line_id = id)

\* C21. The word records built for one line carry strictly increasing
\* word_position values, the first of them 1 or more, so no position occurs
\* twice, also when slang tokens were skipped.
C21_PositionsIncrease ==
    \A id \in 1..Len(tok_lines) :
        LET recs == RecordsOfLine(id)
        IN  /\ \A n \in 1..Len(recs) : recs[n].word_position >= 1
            /\ \A n \in 1..(Len(recs) - 1) :
                  recs[n].word_position < recs[n + 1].word_position

\* The song is finished and a line's records have the positions 1 and 3:
\* the slang term between the two words left a gap
C21_Witness ==
    /\ tok_line > Len(tok_lines)
    /\ tok_lines # <<>>
    /\ tok_lines[1].doc = <<"word", "slang", "word">>
    /\ Len(RecordsOfLine(1)) = 2
    /\ RecordsOfLine(1)[1].word_position = 1
    /\ RecordsOfLine(1)[2].word_position = 3

\* The lowercased token texts at the indexes s..e are the lowercased phrase
\* words in order
ChapterSpanIsPhrase(s, e) ==
    LET tt == chapter_token_texts(chap_tokens)
        pw == chapter_phrase_words(chap_phrase)
    IN  /\ e - s + 1 = Len(pw)
        /\ \A j \in 0..(e - s) : tt[s + j + 1] = pw[j + 1]

\* A returned pair is (-1, -1) or an ordered span inside the token list that
\* spells the phrase and starts at the smallest such index
ChapterResultSound ==
    \/ chap_result = ChapterNotFound
    \/ /\ 0 <= chap_result.start
       /\ chap_result.start <= chap_result.end
       /\ chap_result.end < Len(chap_tokens)
       /\ ChapterSpanIsPhrase(chap_result.start, chap_result.end)
       /\ \A s \in 0..(chap_result.start - 1) :
             ~ChapterSpanIsPhrase(s, s + chap_result.end - chap_result.start)

\* C22. import_chapter.find_phrase_positions returns, for every input, the
\* empty phrase and the empty token list included, either (-1, -1) or a pair
\* (s, e) with 0 <= s <= e < len(tokens) whose token texts spell the phrase,
\* s being the smallest such start.
C22_ChapterResultSound == chap_pc = "done" => ChapterResultSound

\* The same holds for every phrase that has at least one word
C22_SoundForWords ==
    (chap_pc = "done" /\ chapter_phrase_words(chap_phrase) # <<>>)
        => ChapterResultSound

\* A phrase without words is reported at (0, -1), whatever the tokens are
C22_EmptyPhraseSpan ==
    (chap_pc = "done" /\ chapter_phrase_words(chap_phrase) = <<>>)
        => chap_result = [start |-> 0, end |-> -1]

\* The last call of calculate_word_positions returned next_start =
\* end_position + 1 and a start_position not before its start_from
PositionsAdvance ==
    frag_positions # <<>> =>
        /\ frag_positions.next = frag_positions.end + 1
        /\ frag_positions.start >= frag_positions.start_from

\* Each inserted row starts after the end of the row before it
RowsDisjoint ==
    \A k \in 2..Len(inserted_rows) :
        inserted_rows[k].start_word_position
            > inserted_rows[k - 1].end_word_position

\* C25. Fragment spans are ordered and disjoint: calculate_word_positions
\* always returns next_start = end_position + 1 and start_position >=
\* start_from, match found or fallback, so each fragment of a sentence
\* inserted by insert_fragments starts after the previous fragment's end.
C25_SpansOrdered == PositionsAdvance /\ RowsDisjoint

\* Two fragments were inserted, the second found further on in the sentence
\* than the word after the first
C25_Witness ==
    /\ frag_pc = "done"
    /\ Len(inserted_rows) = 2
    /\ FragmentStarts(frag_sentence, frag_list[2],
                      inserted_rows[1].end_word_position + 1) # {}
    /\ inserted_rows[2].start_word_position
           > inserted_rows[1].end_word_position + 1

\* Two fragments were inserted, the second by the fallback
C25_WitnessFallback ==
    /\ frag_pc = "done"
    /\ Len(inserted_rows) = 2
    /\ FragmentStarts(frag_sentence, frag_list[2],
                      inserted_rows[1].end_word_position + 1) = {}

\* No two rows of a table have the same (id, line_id) pair
NoDuplicates(rows) == Cardinality(Pairs(rows)) = Len(rows)

\* C23. Resume without duplicates: after any sequence of process_song runs
\* on a song, each occurrence table holds at most one record per
\* (phrase_id, line_id) and per (slang_id, line_id) pair, over all store
\* behaviours, the runs in which the existing-occurrence lookup fails
\* included.
C23_NoDuplicateOccurrences ==
    NoDuplicates(phrase_occurrences) /\ NoDuplicates(slang_occurrences)

\* A run whose lookups both succeeded has no stored pair among the records
\* it is about to insert
C23_ExistingSkipped ==
    (bf_pc = "insert_phrases" /\ ~bf_log.lookup_failed)
        => /\ Pairs(bf_records.phrases) \cap Pairs(phrase_occurrences) = {}
           /\ Pairs(bf_records.slang) \cap Pairs(slang_occurrences) = {}

\* A second run found pairs in the store and left them out
C23_WitnessSkipped ==
    /\ bf_runs = 2
    /\ bf_pc = "insert_phrases"
    /\ ~bf_log.lookup_failed
    /\ bf_existing.phrases # {}
    /\ bf_records.phrases = <<>>

\* A fetch failed in the run that has returned
FetchFailed == bf_pc = "returned" /\ bf_log.fetch_failed

\* C24. process_song on a failed fetch: if loading the song's phrases, slang
\* terms or lines fails, process_song performs no insert into either
\* occurrence table and returns with errors noted and both occurrence
\* counts 0.
C24_FailedFetchInsertsNothing ==
    FetchFailed =>
        /\ bf_log.inserts = 0
        /\ bf_log.rows_before
               = <<Len(phrase_occurrences), Len(slang_occurrences)>>
        /\ bf_stats.errors # <<>>
        /\ bf_stats.phrase_occurrences = 0
        /\ bf_stats.slang_occurrences = 0

\* The fetch of the lines failed in a second run, for a song with
\* occurrences to find and rows stored by the first run
C24_Witness ==
    /\ FetchFailed
    /\ bf_runs = 2
    /\ bf_song.lines # <<>>
    /\ phrase_occurrences # <<>>

\* The occurrences the locator finds in the song's lines
FoundPhraseRows == Rows(det_song.located[{}].phrases)

FoundSlangRows == Rows(det_song.located[{}].slang)

AllFoundStored ==
    /\ FoundPhraseRows \subseteq det_phrase_rows
    /\ FoundSlangRows \subseteq det_slang_rows

\* C30. Eventual completeness of the resume: if detect_occurrences is run
\* again and again and every store operation eventually succeeds, then at
\* some time every phrase occurrence and every slang occurrence the locator
\* finds in the song's lines is stored; a song whose phrase insert succeeded
\* and whose slang insert failed is processed again.
C30_EventuallyComplete == <>AllFoundStored

\* A song that is among the completed songs is skipped
C30_CompletedSkipped ==
    [][(det_pc = "song" /\ SongId \in completed_songs)
          => det_pc' = "ready"]_vars

\* Nothing is ever stored but what the locator finds
C30_StoredAreFound ==
    /\ det_phrase_rows \subseteq FoundPhraseRows
    /\ det_slang_rows \subseteq FoundSlangRows

\* The phrase insert of a run succeeded, its slang insert failed and no
\* store operation fails any more
SlangInsertFailed ==
    /\ det_pc = "ready"
    /\ det_stats.error = "Failed to insert slang occurrences"
    /\ det_phrase_rows # {}
    /\ det_failures = MaxFailures

\* From then on the song is skipped and its slang occurrences are never
\* stored
C30_PartialNeverResumed ==
    [](SlangInsertFailed => [](det_slang_rows = {} /\ ~AllFoundStored))

====
